---- MODULE Spec2Model ----
(***************************************************************************)
(* A model of the enumeration crate: the Enum contract and its             *)
(* implementations (bool, Ordering, Option<T>, #[derive(Enum)]), the       *)
(* Enumeration range iterator, EnumSet and EnumMap.                        *)
(*                                                                         *)
(* Rust's Option<X> is written as a sequence: None is << >> and Some(x)    *)
(* is <<x>>.  Values of the unit-like enums are their variant names; a     *)
(* cast `x as uN` is Discriminant(T, x).                                   *)
(***************************************************************************)
EXTENDS Integers, Sequences, FiniteSets, TLC

VARIABLES
    ty, ex, ey, ei, eop, out,       \* Enum contract: a type, two values, an index, last call, its result
    sty, raw, rawb, sop,            \* EnumSet<sty>: the raw word, a second set's raw word, last call
    K, inner, size, cur, mop, ret,  \* EnumMap<K, V>: slots, count, live borrow, last call, its result
    ity, enm0, enm, fwd, bwd, iop, got, \* Enumeration<ity>: as built, now, yielded front / back, last call, its result
    remaining                       \* set::Iter: the count it keeps beside its Enumeration

enumVars == <<ty, ex, ey, ei, eop, out>>
setVars == <<sty, raw, rawb, sop>>
mapVars == <<K, inner, size, cur, mop, ret>>
iterVars == <<ity, enm0, enm, fwd, bwd, iop, got, remaining>>
vars == <<ty, ex, ey, ei, eop, out, sty, raw, rawb, sop, K, inner, size, cur, mop, ret,
          ity, enm0, enm, fwd, bwd, iop, got, remaining>>

(***************************************************************************)
(* Bounds of the model.                                                    *)
(***************************************************************************)
\* Map values are 1..MaxVal.
MaxVal == 2
\* Bulk construction is tried on sequences of up to MaxPairs (key, value) pairs.
MaxPairs == 2
\* from_index is tried on 0 .. SIZE + IndexSlack.
IndexSlack == 2

(***************************************************************************)
(* Option<X>                                                               *)
(***************************************************************************)
None == << >>
Some(v) == <<v>>
IsNone(o) == Len(o) = 0
IsSome(o) == Len(o) = 1
Unwrap(o) == o[1]

(***************************************************************************)
(* Fixed-width words (Wordlike): u8 .. u128 as naturals below 2^w.         *)
(***************************************************************************)
RECURSIVE Pow2(_)
Pow2(n) == IF n = 0 THEN 1 ELSE 2 * Pow2(n - 1)

RECURSIVE BitAnd(_, _)
BitAnd(a, b) ==
    IF a = 0 \/ b = 0 THEN 0
    ELSE (IF a % 2 = 1 /\ b % 2 = 1 THEN 1 ELSE 0) + 2 * BitAnd(a \div 2, b \div 2)

RECURSIVE BitOr(_, _)
BitOr(a, b) ==
    IF a = 0 THEN b
    ELSE IF b = 0 THEN a
    ELSE (IF a % 2 = 1 \/ b % 2 = 1 THEN 1 ELSE 0) + 2 * BitOr(a \div 2, b \div 2)

RECURSIVE BitXor(_, _)
BitXor(a, b) ==
    IF a = 0 THEN b
    ELSE IF b = 0 THEN a
    ELSE (IF (a % 2) # (b % 2) THEN 1 ELSE 0) + 2 * BitXor(a \div 2, b \div 2)

\* !a on a w-bit word
BitNot(a, w) == Pow2(w) - 1 - a

\* 1 << n on a w-bit word (bits shifted out are lost)
Shl1(n, w) == Pow2(n) % Pow2(w)

RECURSIVE count_ones(_)
count_ones(a) == IF a = 0 THEN 0 ELSE (a % 2) + count_ones(a \div 2)

\* Wordlike::incr
incr(a, w) == (a + 1) % Pow2(w)

\* bit `p` of word `a` is set
TestBit(a, p) == (a \div Pow2(p)) % 2 = 1

(***************************************************************************)
(* The types that implement Enum.                                          *)
(***************************************************************************)
DerivedTypes == {"SingleEnum", "DoubleEnum", "ManyEnum"}
BaseTypes == {"bool", "Ordering"} \cup DerivedTypes
OptionTypes == {"Option<bool>", "Option<Ordering>", "Option<SingleEnum>",
                "Option<DoubleEnum>", "Option<ManyEnum>", "Option<Option<bool>>"}
EnumTypes == BaseTypes \cup OptionTypes

IsOption(T) == T \in OptionTypes

\* the T of Option<T>
Inner(T) ==
    CASE T = "Option<bool>" -> "bool"
      [] T = "Option<Ordering>" -> "Ordering"
      [] T = "Option<SingleEnum>" -> "SingleEnum"
      [] T = "Option<DoubleEnum>" -> "DoubleEnum"
      [] T = "Option<ManyEnum>" -> "ManyEnum"
      [] T = "Option<Option<bool>>" -> "Option<bool>"

\* the variants of a unit-only enum, in declaration order
Variants(T) ==
    CASE T = "bool" -> <<"false", "true">>
      [] T = "Ordering" -> <<"Less", "Equal", "Greater">>
      [] T = "SingleEnum" -> <<"A">>
      [] T = "DoubleEnum" -> <<"A", "B">>
      [] T = "ManyEnum" -> <<"A", "B", "C", "D", "E", "F", "G", "H", "I", "J">>

\* position of variant v in its declaration, from 1
Position(T, v) == CHOOSE p \in 1..Len(Variants(T)) : Variants(T)[p] = v

\* `v as iN`: Ordering is Less = -1, Equal = 0, Greater = 1; the others count from 0
Discriminant(T, v) ==
    IF T = "Ordering" THEN Position(T, v) - 2 ELSE Position(T, v) - 1

\* transmute of a discriminant back to the enum
Transmute(T, d) == Variants(T)[d + 1]

RECURSIVE Values(_)
Values(T) ==
    IF IsOption(T) THEN {None} \cup {Some(v) : v \in Values(Inner(T))}
    ELSE {Variants(T)[p] : p \in 1..Len(Variants(T))}

(***************************************************************************)
(* #[derive(Enum)]                                                         *)
(***************************************************************************)
\* width in bits of the chosen representation, 0 when there is none
rep_for_size(n) ==
    IF n <= 8 THEN 8
    ELSE IF n <= 16 THEN 16
    ELSE IF n <= 32 THEN 32
    ELSE IF n <= 64 THEN 64
    ELSE IF n <= 128 THEN 128
    ELSE 0

\* none of the derived enums of the crate carries a #[repr]
find_repr(T) == None

derive_size(T) == Len(Variants(T))
derive_rep(T) == rep_for_size(derive_size(T) + 1)
derive_min_bound(T) == Variants(T)[1]
derive_max_bound(T) == Variants(T)[Len(Variants(T))]

\* `idx`: the integer type of the casts, Some("u8") guessed for more than two variants
derive_idx(T) ==
    IF IsNone(find_repr(T)) /\ derive_size(T) > 2 THEN Some("u8") ELSE find_repr(T)

\* which of the three generated impls: "idx", "one" or "two"
derive_branch(T) ==
    IF IsSome(derive_idx(T)) THEN "idx"
    ELSE IF derive_size(T) = 1 THEN "one"
    ELSE "two"

derive_succ(T, self) ==
    CASE derive_branch(T) = "idx" ->
            IF self = derive_max_bound(T) THEN None
            ELSE Some(Transmute(T, Discriminant(T, self) + 1))
      [] derive_branch(T) = "one" -> None
      [] derive_branch(T) = "two" ->
            IF self = derive_max_bound(T) THEN None ELSE Some(derive_max_bound(T))

derive_pred(T, self) ==
    CASE derive_branch(T) = "idx" ->
            IF self = derive_min_bound(T) THEN None
            ELSE Some(Transmute(T, Discriminant(T, self) - 1))
      [] derive_branch(T) = "one" -> None
      [] derive_branch(T) = "two" ->
            IF self = derive_min_bound(T) THEN None ELSE Some(derive_min_bound(T))

derive_bit(T, self) ==
    CASE derive_branch(T) = "idx" -> Shl1(Discriminant(T, self), derive_rep(T))
      [] derive_branch(T) = "one" -> 0
      [] derive_branch(T) = "two" -> Discriminant(T, self) % Pow2(derive_rep(T))

derive_index(T, self) ==
    CASE derive_branch(T) = "idx" -> Discriminant(T, self)
      [] derive_branch(T) = "one" -> 0
      [] derive_branch(T) = "two" -> Discriminant(T, self)

derive_from_index(T, n) ==
    CASE derive_branch(T) = "idx" ->
            IF n < derive_size(T) THEN Some(Transmute(T, n % 256)) ELSE None
      [] derive_branch(T) = "one" ->
            IF n = 0 THEN Some(derive_min_bound(T)) ELSE None
      [] derive_branch(T) = "two" ->
            IF n = 0 THEN Some(derive_min_bound(T))
            ELSE IF n = 1 THEN Some(derive_max_bound(T))
            ELSE None

(***************************************************************************)
(* impl Enum for bool                                                      *)
(***************************************************************************)
bool_succ(self) == IF self = "true" THEN None ELSE Some("true")
bool_pred(self) == IF self = "true" THEN Some("false") ELSE None
bool_bit(self) == Shl1(Discriminant("bool", self), 8)
bool_index(self) == Discriminant("bool", self)
bool_from_index(n) ==
    IF n = 0 THEN Some("false") ELSE IF n = 1 THEN Some("true") ELSE None

(***************************************************************************)
(* impl Enum for Ordering                                                  *)
(***************************************************************************)
Ordering_succ(self) ==
    CASE self = "Less" -> Some("Equal")
      [] self = "Equal" -> Some("Greater")
      [] self = "Greater" -> None

Ordering_pred(self) ==
    CASE self = "Less" -> None
      [] self = "Equal" -> Some("Less")
      [] self = "Greater" -> Some("Equal")

Ordering_bit(self) == Shl1(Discriminant("Ordering", self) + 1, 8)
\* as Ordering_index, but counting from one
Ordering_index_from_one(self) == Discriminant("Ordering", self) + 2
Ordering_index(self) == Discriminant("Ordering", self) + 1
Ordering_from_index(n) ==
    CASE n = 0 -> Some("Less")
      [] n = 1 -> Some("Equal")
      [] n = 2 -> Some("Greater")
      [] OTHER -> None

(***************************************************************************)
(* impl<T: Enum> Enum for Option<T>, and the trait's dispatch on the type. *)
(***************************************************************************)
RECURSIVE SIZE(_)
RECURSIVE MIN(_)
RECURSIVE MAX(_)
RECURSIVE RepBits(_)
RECURSIVE succ(_, _)
RECURSIVE pred(_, _)
RECURSIVE bit(_, _)
RECURSIVE index(_, _)
RECURSIVE from_index(_, _)

Option_SIZE(T) == SIZE(Inner(T)) + 1
Option_MIN(T) == None
Option_MAX(T) == Some(MAX(Inner(T)))
\* type Rep = T::Rep
Option_Rep(T) == RepBits(Inner(T))

Option_succ(T, self) ==
    IF IsNone(self) THEN Some(Some(MIN(Inner(T))))
    ELSE LET s == succ(Inner(T), Unwrap(self))
         IN  IF IsNone(s) THEN None ELSE Some(Some(Unwrap(s)))

\* as Option_pred, but mapping the inner predecessor like succ does
Option_pred_map_some(T, self) ==
    IF IsNone(self) THEN None
    ELSE LET q == pred(Inner(T), Unwrap(self))
         IN  IF IsNone(q) THEN None ELSE Some(Some(Unwrap(q)))

Option_pred(T, self) ==
    IF IsNone(self) THEN None
    ELSE Some(pred(Inner(T), Unwrap(self)))

Option_bit(T, self) ==
    IF IsNone(self) THEN bit(Inner(T), MIN(Inner(T)))
    ELSE incr(bit(Inner(T), Unwrap(self)), Option_Rep(T))

Option_index(T, self) ==
    IF IsNone(self) THEN 0
    ELSE index(Inner(T), Unwrap(self)) + 1

\* as Option_from_index, but without the shift by one
Option_from_index_no_shift(T, n) ==
    IF n = 0 THEN Some(None)
    ELSE LET r == from_index(Inner(T), n)
         IN  IF IsNone(r) THEN None ELSE Some(Some(Unwrap(r)))

Option_from_index(T, n) ==
    IF n = 0 THEN Some(None)
    ELSE LET r == from_index(Inner(T), n - 1)
         IN  IF IsNone(r) THEN None ELSE Some(Some(Unwrap(r)))

SIZE(T) ==
    CASE T = "bool" -> 2
      [] T = "Ordering" -> 3
      [] T \in DerivedTypes -> derive_size(T)
      [] OTHER -> Option_SIZE(T)

MIN(T) ==
    CASE T = "bool" -> "false"
      [] T = "Ordering" -> "Less"
      [] T \in DerivedTypes -> derive_min_bound(T)
      [] OTHER -> Option_MIN(T)

MAX(T) ==
    CASE T = "bool" -> "true"
      [] T = "Ordering" -> "Greater"
      [] T \in DerivedTypes -> derive_max_bound(T)
      [] OTHER -> Option_MAX(T)

\* width in bits of <T as Enum>::Rep
RepBits(T) ==
    CASE T = "bool" -> 8
      [] T = "Ordering" -> 8
      [] T \in DerivedTypes -> derive_rep(T)
      [] OTHER -> Option_Rep(T)

succ(T, self) ==
    CASE T = "bool" -> bool_succ(self)
      [] T = "Ordering" -> Ordering_succ(self)
      [] T \in DerivedTypes -> derive_succ(T, self)
      [] OTHER -> Option_succ(T, self)

pred(T, self) ==
    CASE T = "bool" -> bool_pred(self)
      [] T = "Ordering" -> Ordering_pred(self)
      [] T \in DerivedTypes -> derive_pred(T, self)
      [] OTHER -> Option_pred(T, self)

bit(T, self) ==
    CASE T = "bool" -> bool_bit(self)
      [] T = "Ordering" -> Ordering_bit(self)
      [] T \in DerivedTypes -> derive_bit(T, self)
      [] OTHER -> Option_bit(T, self)

index(T, self) ==
    CASE T = "bool" -> bool_index(self)
      [] T = "Ordering" -> Ordering_index(self)
      [] T \in DerivedTypes -> derive_index(T, self)
      [] OTHER -> Option_index(T, self)

from_index(T, n) ==
    CASE T = "bool" -> bool_from_index(n)
      [] T = "Ordering" -> Ordering_from_index(n)
      [] T \in DerivedTypes -> derive_from_index(T, n)
      [] OTHER -> Option_from_index(T, n)

(***************************************************************************)
(* Enumeration<T>: the range iterator, and Enum::enumerate.                *)
(***************************************************************************)
\* the one value of a singleton set; used to fix the value of a loop's state
\* before the next turn of the loop reads it
Only(S) == CHOOSE v \in S : TRUE

Unbounded == [kind |-> "Unbounded"]
Included(t) == [kind |-> "Included", t |-> t]
Excluded(t) == [kind |-> "Excluded", t |-> t]

Bounds(T) ==
    {Unbounded} \cup {Included(t) : t \in Values(T)} \cup {Excluded(t) : t \in Values(T)}

invalid_enum(T) == [finished |-> TRUE, start |-> MIN(T), end |-> MIN(T)]

\* as enumerate, but without the comparison of the two indices
enumerate_unordered(T, start_bound, end_bound) ==
    LET s == CASE start_bound.kind = "Unbounded" -> Some(MIN(T))
               [] start_bound.kind = "Included" -> Some(start_bound.t)
               [] start_bound.kind = "Excluded" -> succ(T, start_bound.t)
        e == CASE end_bound.kind = "Unbounded" -> Some(MAX(T))
               [] end_bound.kind = "Included" -> Some(end_bound.t)
               [] end_bound.kind = "Excluded" -> pred(T, end_bound.t)
    IN  IF IsNone(s) THEN invalid_enum(T)
        ELSE IF IsNone(e) THEN invalid_enum(T)
        ELSE [finished |-> FALSE, start |-> Unwrap(s), end |-> Unwrap(e)]

\* Enum::enumerate
enumerate(T, start_bound, end_bound) ==
    LET s == CASE start_bound.kind = "Unbounded" -> Some(MIN(T))
               [] start_bound.kind = "Included" -> Some(start_bound.t)
               [] start_bound.kind = "Excluded" -> succ(T, start_bound.t)
        e == CASE end_bound.kind = "Unbounded" -> Some(MAX(T))
               [] end_bound.kind = "Included" -> Some(end_bound.t)
               [] end_bound.kind = "Excluded" -> pred(T, end_bound.t)
    IN  IF IsNone(s) THEN invalid_enum(T)
        ELSE IF IsNone(e) THEN invalid_enum(T)
        ELSE IF index(T, Unwrap(s)) > index(T, Unwrap(e)) THEN invalid_enum(T)
        ELSE [finished |-> FALSE, start |-> Unwrap(s), end |-> Unwrap(e)]

\* as Enumeration_next, but the last element does not mark the range finished
Enumeration_next_never_finishes(T, en) ==
    IF en.finished THEN [en |-> en, item |-> None, panic |-> FALSE]
    ELSE IF en.start = en.end
    THEN [en |-> en, item |-> Some(en.start), panic |-> FALSE]
    ELSE [en |-> [en EXCEPT !.start = Unwrap(succ(T, en.start))], item |-> Some(en.start),
          panic |-> FALSE]

\* as Enumeration_next, but without looking at the finished flag
Enumeration_next_unfused(T, en) ==
    IF en.start = en.end
    THEN [en |-> [en EXCEPT !.finished = TRUE], item |-> Some(en.start), panic |-> FALSE]
    ELSE LET s == succ(T, en.start)
         IN  IF IsNone(s) THEN [en |-> en, item |-> None, panic |-> TRUE]
             ELSE [en |-> [en EXCEPT !.start = Unwrap(s)], item |-> Some(en.start),
                   panic |-> FALSE]

\* Enumeration::next: the iterator afterwards, the item, and whether expect() panicked
Enumeration_next(T, en) ==
    IF en.finished THEN [en |-> en, item |-> None, panic |-> FALSE]
    ELSE IF en.start = en.end
    THEN [en |-> [en EXCEPT !.finished = TRUE], item |-> Some(en.start), panic |-> FALSE]
    ELSE LET s == succ(T, en.start)
         IN  IF IsNone(s) THEN [en |-> en, item |-> None, panic |-> TRUE]
             ELSE [en |-> [en EXCEPT !.start = Unwrap(s)], item |-> Some(en.start),
                   panic |-> FALSE]

\* as Enumeration_next_back, but stepping end below start at the last element
Enumeration_next_back_past_start(T, en) ==
    IF en.finished THEN [en |-> en, item |-> None, panic |-> FALSE]
    ELSE LET s == pred(T, en.end)
         IN  IF IsNone(s) THEN [en |-> en, item |-> None, panic |-> TRUE]
             ELSE [en |-> [en EXCEPT !.end = Unwrap(s)], item |-> Some(en.end),
                   panic |-> FALSE]

\* as Enumeration_next_back, but handing out the front element
Enumeration_next_back_from_start(T, en) ==
    IF en.finished THEN [en |-> en, item |-> None, panic |-> FALSE]
    ELSE IF en.start = en.end
    THEN [en |-> [en EXCEPT !.finished = TRUE], item |-> Some(en.start), panic |-> FALSE]
    ELSE [en |-> [en EXCEPT !.end = Unwrap(pred(T, en.end))], item |-> Some(en.start),
          panic |-> FALSE]

\* Enumeration::next_back
Enumeration_next_back(T, en) ==
    IF en.finished THEN [en |-> en, item |-> None, panic |-> FALSE]
    ELSE IF en.start = en.end
    THEN [en |-> [en EXCEPT !.finished = TRUE], item |-> Some(en.end), panic |-> FALSE]
    ELSE LET s == pred(T, en.end)
         IN  IF IsNone(s) THEN [en |-> en, item |-> None, panic |-> TRUE]
             ELSE [en |-> [en EXCEPT !.end = Unwrap(s)], item |-> Some(en.end),
                   panic |-> FALSE]

\* as fold_loop, but returning at the last value before folding it
RECURSIVE fold_loop_exclusive(_, _, _, _)
fold_loop_exclusive(T, en, val, accum) ==
    IF val = en.end THEN accum
    ELSE LET s == succ(T, val)
         IN  IF IsNone(s) THEN Append(accum, val)
             ELSE fold_loop_exclusive(T, en, Unwrap(s), Append(accum, val))

\* the loop of Enumeration::fold: the values handed to the folding closure, in order
RECURSIVE fold_loop(_, _, _, _)
fold_loop(T, en, val, accum) ==
    LET acc2 == Append(accum, val)
    IN  IF val = en.end THEN acc2
        ELSE LET s == succ(T, val)
             IN  IF IsNone(s) THEN acc2 ELSE fold_loop(T, en, Unwrap(s), acc2)

Enumeration_fold(T, en) ==
    IF en.finished THEN << >> ELSE fold_loop(T, en, en.start, << >>)

\* the loop of Enumeration::rfold: from end down to start
RECURSIVE rfold_loop(_, _, _, _)
rfold_loop(T, en, val, accum) ==
    LET acc2 == Append(accum, val)
    IN  IF val = en.start THEN acc2
        ELSE LET s == pred(T, val)
             IN  IF IsNone(s) THEN acc2 ELSE rfold_loop(T, en, Unwrap(s), acc2)

Enumeration_rfold(T, en) ==
    IF en.finished THEN << >> ELSE rfold_loop(T, en, en.end, << >>)

\* as Enumeration_count, but one short
Enumeration_count_exclusive(T, en) ==
    IF en.finished THEN 0 ELSE index(T, en.end) - index(T, en.start)

\* Enumeration::count, in usize arithmetic without the wrap
Enumeration_count(T, en) ==
    IF en.finished THEN 0 ELSE index(T, en.end) + 1 - index(T, en.start)

\* as Enumeration_len, but without the finished flag
Enumeration_len_ignores_finished(T, en) == index(T, en.end) + 1 - index(T, en.start)

\* ExactSizeIterator::len
Enumeration_len(T, en) == Enumeration_count(T, en)

\* Enumeration::size_hint
Enumeration_size_hint(T, en) ==
    <<Enumeration_count(T, en), Some(Enumeration_count(T, en))>>

\* the derived PartialEq: field by field
Enumeration_eq(a, b) == a.finished = b.finished /\ a.start = b.start /\ a.end = b.end

\* the derived Debug output and Hash input: the fields in declaration order
Enumeration_fmt(en) == <<"Enumeration", en.finished, en.start, en.end>>

\* rev().collect(): next_back() until it returns None
RECURSIVE Enumeration_collect_back(_, _)
Enumeration_collect_back(T, en) ==
    Only({ IF IsNone(r.item) THEN << >>
           ELSE <<Unwrap(r.item)>> \o Enumeration_collect_back(T, r.en) :
           r \in {Enumeration_next_back(T, en)} })

\* collect(): next() until it returns None
RECURSIVE Enumeration_collect(_, _)
Enumeration_collect(T, en) ==
    LET r == Enumeration_next(T, en)
    IN  IF IsNone(r.item) THEN << >>
        ELSE <<Unwrap(r.item)>> \o Enumeration_collect(T, r.en)

\* Iterator::find(|e| e.index() == n) over next()
RECURSIVE find_index(_, _, _)
find_index(T, en, n) ==
    LET r == Enumeration_next(T, en)
    IN  IF IsNone(r.item) THEN None
        ELSE IF index(T, Unwrap(r.item)) = n THEN r.item
        ELSE find_index(T, r.en, n)

\* the default body of Enum::from_index
Enum_from_index(T, n) == find_index(T, enumerate(T, Unbounded, Unbounded), n)

(***************************************************************************)
(* Specification SpecEnum: the Enum contract applied to every type of the  *)
(* crate.  A type, two of its values and an index are drawn; each action   *)
(* is one call, recorded in eop with its result in out.                    *)
(***************************************************************************)
SetIdle == sty = "bool" /\ raw = 0 /\ rawb = 0 /\ sop = [name |-> "new", x |-> "false"]
MapIdle ==
    /\ K = "Ordering" /\ inner = << >> /\ size = 0
    /\ cur = [kind |-> "none"]
    /\ mop = [name |-> "new", k |-> "Less", v |-> 0]
    /\ ret = None
EnumIdle ==
    /\ ty = "bool" /\ ex = "false" /\ ey = "false" /\ ei = 0
    /\ eop = "new" /\ out = None
IterIdle ==
    /\ ity = "bool" /\ enm0 = invalid_enum("bool") /\ enm = invalid_enum("bool")
    /\ fwd = << >> /\ bwd = << >> /\ iop = "new" /\ got = None /\ remaining = 0

EnumInit ==
    /\ ty \in EnumTypes
    /\ ex = MIN(ty)
    /\ ey = MIN(ty)
    /\ ei = 0
    /\ eop = "new"
    /\ out = None
    /\ SetIdle
    /\ MapIdle
    /\ IterIdle

\* x.succ()
CallSucc ==
    /\ eop = "new"
    /\ \E self \in Values(ty) :
        /\ ex' = self
        /\ out' = succ(ty, self)
    /\ eop' = "succ"
    /\ UNCHANGED <<ty, ey, ei>>
    /\ UNCHANGED setVars
    /\ UNCHANGED mapVars
    /\ UNCHANGED iterVars

\* x.pred()
CallPred ==
    /\ eop = "new"
    /\ \E self \in Values(ty) :
        /\ ex' = self
        /\ out' = pred(ty, self)
    /\ eop' = "pred"
    /\ UNCHANGED <<ty, ey, ei>>
    /\ UNCHANGED setVars
    /\ UNCHANGED mapVars
    /\ UNCHANGED iterVars

\* x.bit()
CallBit ==
    /\ eop = "new"
    /\ \E self \in Values(ty) :
        /\ ex' = self
        /\ out' = bit(ty, self)
    /\ eop' = "bit"
    /\ UNCHANGED <<ty, ey, ei>>
    /\ UNCHANGED setVars
    /\ UNCHANGED mapVars
    /\ UNCHANGED iterVars

\* x.index()
CallIndex ==
    /\ eop = "new"
    /\ \E self \in Values(ty) :
        /\ ex' = self
        /\ out' = index(ty, self)
    /\ eop' = "index"
    /\ UNCHANGED <<ty, ey, ei>>
    /\ UNCHANGED setVars
    /\ UNCHANGED mapVars
    /\ UNCHANGED iterVars

\* T::from_index(i), as the type overrides it
CallFromIndex ==
    /\ eop = "new"
    /\ \E n \in 0..(SIZE(ty) + IndexSlack) :
        /\ ei' = n
        /\ out' = from_index(ty, n)
    /\ eop' = "from_index"
    /\ UNCHANGED <<ty, ex, ey>>
    /\ UNCHANGED setVars
    /\ UNCHANGED mapVars
    /\ UNCHANGED iterVars

\* T::from_index(i), by the trait's default body
CallFromIndexDefault ==
    /\ eop = "new"
    /\ \E n \in 0..(SIZE(ty) + IndexSlack) :
        /\ ei' = n
        /\ out' = Enum_from_index(ty, n)
    /\ eop' = "from_index_default"
    /\ UNCHANGED <<ty, ex, ey>>
    /\ UNCHANGED setVars
    /\ UNCHANGED mapVars
    /\ UNCHANGED iterVars

\* T::enumerate(x..=y).count()
CallCount ==
    /\ eop = "new"
    /\ \E a \in Values(ty), b \in Values(ty) :
        /\ ex' = a
        /\ ey' = b
        /\ out' = Enumeration_count(ty, enumerate(ty, Included(a), Included(b)))
    /\ eop' = "count"
    /\ UNCHANGED <<ty, ei>>
    /\ UNCHANGED setVars
    /\ UNCHANGED mapVars
    /\ UNCHANGED iterVars

\* T::enumerate(x..=y).fold(..): the values the closure is given
CallFold ==
    /\ eop = "new"
    /\ \E a \in Values(ty), b \in Values(ty) :
        /\ ex' = a
        /\ ey' = b
        /\ out' = Enumeration_fold(ty, enumerate(ty, Included(a), Included(b)))
    /\ eop' = "fold"
    /\ UNCHANGED <<ty, ei>>
    /\ UNCHANGED setVars
    /\ UNCHANGED mapVars
    /\ UNCHANGED iterVars

\* T::enumerate(..).collect()
CallCollect ==
    /\ eop = "new"
    /\ eop' = "collect"
    /\ out' = Enumeration_collect(ty, enumerate(ty, Unbounded, Unbounded))
    /\ UNCHANGED <<ty, ex, ey, ei>>
    /\ UNCHANGED setVars
    /\ UNCHANGED mapVars
    /\ UNCHANGED iterVars

\* T::enumerate(x..=y).rev().collect()
CallRev ==
    /\ eop = "new"
    /\ \E a \in Values(ty), b \in Values(ty) :
        /\ ex' = a
        /\ ey' = b
        /\ out' = Enumeration_collect_back(ty, enumerate(ty, Included(a), Included(b)))
    /\ eop' = "rev"
    /\ UNCHANGED <<ty, ei>>
    /\ UNCHANGED setVars
    /\ UNCHANGED mapVars
    /\ UNCHANGED iterVars

\* T::enumerate(range): ex and ey hold the range's start and end bound
CallEnumerate ==
    /\ eop = "new"
    /\ \E start_bound \in Bounds(ty), end_bound \in Bounds(ty) :
        /\ ex' = start_bound
        /\ ey' = end_bound
        /\ out' = enumerate(ty, start_bound, end_bound)
    /\ eop' = "enumerate"
    /\ UNCHANGED <<ty, ei>>
    /\ UNCHANGED setVars
    /\ UNCHANGED mapVars
    /\ UNCHANGED iterVars

\* the result is dropped; the next call starts afresh
EnumReturn ==
    /\ eop # "new"
    /\ eop' = "new"
    /\ ex' = MIN(ty)
    /\ ey' = MIN(ty)
    /\ ei' = 0
    /\ out' = None
    /\ UNCHANGED ty
    /\ UNCHANGED setVars
    /\ UNCHANGED mapVars
    /\ UNCHANGED iterVars

EnumNext ==
    \/ CallSucc
    \/ CallPred
    \/ CallBit
    \/ CallIndex
    \/ CallFromIndex
    \/ CallFromIndexDefault
    \/ CallCount
    \/ CallFold
    \/ CallCollect
    \/ CallRev
    \/ CallEnumerate
    \/ EnumReturn

SpecEnum == EnumInit /\ [][EnumNext]_vars

(***************************************************************************)
(* Claims about the Enum contract, checked under SpecEnum.                 *)
(***************************************************************************)

\* C5: for every type and every value x, succ(x) is none exactly when
\* x == MAX, and pred(x) is none exactly when x == MIN.
C5_SuccPredBoundary ==
    /\ eop = "succ" => (IsNone(out) <=> ex = MAX(ty))
    /\ eop = "pred" => (IsNone(out) <=> ex = MIN(ty))

\* pred of Some(MIN) in an Option type is Some(None), although the inner pred is none
C5_Witness ==
    /\ eop = "pred"
    /\ ty = "Option<Ordering>"
    /\ ex = Some("Less")
    /\ IsSome(out)

\* C6: from_index is the total inverse of index: for i < SIZE it gives a
\* value whose index is i, for i >= SIZE it gives none, and
\* from_index(index(x)) == x; for the overriding bodies and the default one.
C6_FromIndexInverse ==
    /\ eop \in {"from_index", "from_index_default"} =>
        /\ ei < SIZE(ty) => (IsSome(out) /\ index(ty, Unwrap(out)) = ei)
        /\ ei >= SIZE(ty) => IsNone(out)
    /\ eop = "index" =>
        /\ from_index(ty, out) = Some(ex)
        /\ Enum_from_index(ty, out) = Some(ex)

\* the last index of Option<ManyEnum> resolved by the default scan
C6_Witness ==
    /\ eop = "from_index_default"
    /\ ty = "Option<ManyEnum>"
    /\ ei = 10
    /\ out = Some(Some("J"))

\* C7: index(MIN) == 0, index(succ(x)) == index(x) + 1 and
\* index(pred(x)) == index(x) - 1 whenever they exist, enumerate(..) yields
\* all SIZE values with indices 0, 1, .., SIZE-1 in that order, and for
\* Option<T> None has index 0 and Some(v) has index index(v) + 1.
C7_IndexSteps ==
    /\ (eop = "succ" /\ IsSome(out)) => index(ty, Unwrap(out)) = index(ty, ex) + 1
    /\ (eop = "pred" /\ IsSome(out)) => index(ty, Unwrap(out)) = index(ty, ex) - 1
    /\ eop = "index" =>
        /\ ex = MIN(ty) => out = 0
        /\ (IsOption(ty) /\ IsNone(ex)) => out = 0
        /\ (IsOption(ty) /\ IsSome(ex)) => out = index(Inner(ty), Unwrap(ex)) + 1
    /\ eop = "collect" =>
        /\ Len(out) = SIZE(ty)
        /\ \A p \in 1..Len(out) : index(ty, out[p]) = p - 1
        /\ {out[p] : p \in 1..Len(out)} = Values(ty)

\* the three values of Ordering enumerated in order
C7_Witness ==
    /\ eop = "collect"
    /\ ty = "Ordering"
    /\ out = <<"Less", "Equal", "Greater">>

\* C10: the O(1) count() of enumerate(x..=y) equals the number of elements
\* fold steps through: index(y) - index(x) + 1 when x is not after y, else 0.
C10_CountIsFoldTally ==
    eop = "count" =>
        /\ out = Len(Enumeration_fold(ty, enumerate(ty, Included(ex), Included(ey))))
        /\ out = IF index(ty, ex) <= index(ty, ey)
                 THEN index(ty, ey) - index(ty, ex) + 1
                 ELSE 0

\* a four-element range of ManyEnum
C10_Witness ==
    /\ eop = "count"
    /\ ty = "ManyEnum"
    /\ ex = "C"
    /\ ey = "F"
    /\ out = 4

\* C8: for bool, Ordering and the derived enums with one, two or more
\* variants, bit(x) has exactly one bit set, at a position below SIZE, and
\* bit(x) & bit(y) == 0 for all distinct x and y.
C8_SingleBitMasks ==
    (eop = "bit" /\ ty \in BaseTypes) =>
        /\ count_ones(out) = 1
        /\ out < Pow2(SIZE(ty))
        /\ \A other \in Values(ty) :
              other # ex => BitAnd(out, bit(ty, other)) = 0

\* C9: for Option<T> over a type T whose own masks are single bits (bool,
\* Ordering, ManyEnum): bit(None) equals bit(T::MIN), bit(Some(v)) is the
\* single-bit mask one position above bit(v), and the masks of distinct values
\* never overlap.
C9_OptionBitShift ==
    (eop = "bit" /\ ty \in {"Option<bool>", "Option<Ordering>", "Option<ManyEnum>"}) =>
        /\ IsNone(ex) => out = bit(Inner(ty), MIN(Inner(ty)))
        /\ IsSome(ex) => out = 2 * bit(Inner(ty), Unwrap(ex))
        /\ count_ones(out) = 1
        /\ \A other \in Values(ty) :
              other # ex => BitAnd(out, bit(ty, other)) = 0

(***************************************************************************)
(* EnumSet<T>: one word of T::Rep.                                         *)
(***************************************************************************)
EnumSet_new == 0
EnumSet_contains(T, word, v) == BitAnd(word, bit(T, v)) # 0
EnumSet_insert(T, word, v) == BitOr(word, bit(T, v))
EnumSet_remove(T, word, v) == BitAnd(word, BitNot(bit(T, v), RepBits(T)))
EnumSet_clear(word) == 0
EnumSet_len(word) == count_ones(word)
EnumSet_is_empty(word) == word = 0

\* Wordlike::mask(n): the word whose low n bits are set
mask(n, w) == (Pow2(n) - 1) % Pow2(w)

\* as EnumSet_inverse, but without the mask
EnumSet_inverse_unmasked(T, word) == BitNot(word, RepBits(T))

EnumSet_inverse(T, word) == BitAnd(BitNot(word, RepBits(T)), mask(SIZE(T), RepBits(T)))
EnumSet_difference(a, b) == BitXor(BitOr(a, b), b)
EnumSet_symmetric_difference(a, b) == BitXor(a, b)
EnumSet_intersection(a, b) == BitAnd(a, b)
EnumSet_union(a, b) == BitOr(a, b)
EnumSet_from_raw(word) == word
\* PartialEq for EnumSet
EnumSet_eq(a, b) == a = b

\* the bitop! / bitassign! impls: f is bitand, bitor or bitxor
bitop(f, a, b) ==
    CASE f = "bitand" -> BitAnd(a, b)
      [] f = "bitor" -> BitOr(a, b)
      [] f = "bitxor" -> BitXor(a, b)

\* FromIterator<T> (and the enums! macro): the masks of the values, or-ed from ZERO
RECURSIVE EnumSet_from_iter(_, _)
EnumSet_from_iter(T, vals) ==
    IF vals = << >> THEN 0
    ELSE BitOr(EnumSet_from_iter(T, SubSeq(vals, 1, Len(vals) - 1)), bit(T, vals[Len(vals)]))

\* one turn of the loop of retain: f is the set of values the closure accepts
EnumSet_retain_visit(T, word, f, calls, val) ==
    IF BitAnd(word, bit(T, val)) # 0
    THEN [raw |-> IF val \in f THEN word ELSE BitAnd(word, BitNot(bit(T, val), RepBits(T))),
          calls |-> Append(calls, val)]
    ELSE [raw |-> word, calls |-> calls]

RECURSIVE EnumSet_retain_loop(_, _, _, _, _)
EnumSet_retain_loop(T, word, f, en, calls) ==
    Only({ IF IsNone(r.item) THEN [raw |-> word, calls |-> calls]
           ELSE Only({ EnumSet_retain_loop(T, st.raw, f, r.en, st.calls) :
                       st \in {EnumSet_retain_visit(T, word, f, calls, Unwrap(r.item))} }) :
           r \in {Enumeration_next(T, en)} })

\* EnumSet::retain: the word afterwards and the values the closure was called with
EnumSet_retain(T, word, f) ==
    EnumSet_retain_loop(T, word, f, enumerate(T, Unbounded, Unbounded), << >>)

(***************************************************************************)
(* set::Iter<T>: a copy of the set, the Enumeration of T and a count.  The *)
(* count is a usize; it is kept as an integer r that stands for the usize  *)
(* r mod 2^64, so a negative r is the wrapped value 2^64 + r.              *)
(***************************************************************************)
SetIter_new(T, word) ==
    [set |-> word, iter |-> enumerate(T, Unbounded, Unbounded), remaining |-> EnumSet_len(word)]

\* Iterator::find(|x| set.contains(x)) over Enumeration::next
RECURSIVE Enumeration_find(_, _, _)
Enumeration_find(T, en, word) ==
    Only({ IF IsNone(r.item) THEN r
           ELSE IF EnumSet_contains(T, word, Unwrap(r.item)) THEN r
           ELSE Enumeration_find(T, r.en, word) :
           r \in {Enumeration_next(T, en)} })

\* DoubleEndedIterator::rfind over Enumeration::next_back
RECURSIVE Enumeration_rfind(_, _, _)
Enumeration_rfind(T, en, word) ==
    Only({ IF IsNone(r.item) THEN r
           ELSE IF EnumSet_contains(T, word, Unwrap(r.item)) THEN r
           ELSE Enumeration_rfind(T, r.en, word) :
           r \in {Enumeration_next_back(T, en)} })

\* the usize an integer stands for is at least the natural n
usize_ge(r, n) == r < 0 \/ r >= n

\* the part of next and next_back after the search: `remaining -= 1` on an
\* item; underflow says that the subtraction left 0 (a panic where overflow
\* is checked, a wrap where it is not)
SetIter_step(it, r) ==
    [it |-> [set |-> it.set, iter |-> r.en,
             remaining |-> IF IsSome(r.item) THEN it.remaining - 1 ELSE it.remaining],
     item |-> r.item,
     panic |-> r.panic,
     underflow |-> IsSome(r.item) /\ it.remaining = 0]

SetIter_next(T, it) == SetIter_step(it, Enumeration_find(T, it.iter, it.set))
SetIter_next_back(T, it) == SetIter_step(it, Enumeration_rfind(T, it.iter, it.set))
SetIter_len(it) == it.remaining
SetIter_count(it) == it.remaining
SetIter_size_hint(it) == <<it.remaining, Some(it.remaining)>>

\* next() until None: the items, and whether the count underflowed on the way
RECURSIVE SetIter_collect(_, _)
SetIter_collect(T, it) ==
    Only({ IF IsNone(r.item) THEN [items |-> << >>, underflow |-> FALSE]
           ELSE Only({ [items |-> <<Unwrap(r.item)>> \o rest.items,
                        underflow |-> r.underflow \/ rest.underflow] :
                       rest \in {SetIter_collect(T, r.it)} }) :
           r \in {SetIter_next(T, it)} })

\* next_back() until None
RECURSIVE SetIter_collect_back(_, _)
SetIter_collect_back(T, it) ==
    Only({ IF IsNone(r.item) THEN [items |-> << >>, underflow |-> FALSE]
           ELSE Only({ [items |-> <<Unwrap(r.item)>> \o rest.items,
                        underflow |-> r.underflow \/ rest.underflow] :
                       rest \in {SetIter_collect_back(T, r.it)} }) :
           r \in {SetIter_next_back(T, it)} })

\* Serialize for EnumSet: collect_seq over the set's iterator
EnumSet_serialize(T, word) == SetIter_collect(T, SetIter_new(T, word))

\* SeqVisitor::visit_seq: insert each element into a new set
RECURSIVE visit_seq(_, _, _, _)
visit_seq(T, values, elements, p) ==
    IF p > Len(elements) THEN values
    ELSE Only({ visit_seq(T, v2, elements, p + 1) :
                v2 \in {EnumSet_insert(T, values, elements[p])} })

EnumSet_deserialize(T, elements) == visit_seq(T, EnumSet_new, elements, 1)

(***************************************************************************)
(* Specification SpecSet: an EnumSet<sty>, from new(), under insert,       *)
(* remove and clear.                                                       *)
(***************************************************************************)
SetInit ==
    /\ sty \in EnumTypes
    /\ raw = EnumSet_new
    /\ rawb = EnumSet_new
    /\ sop = [name |-> "new", x |-> MIN(sty)]
    /\ EnumIdle
    /\ MapIdle
    /\ IterIdle

SetInsert ==
    /\ \E v \in Values(sty) :
        /\ raw' = EnumSet_insert(sty, raw, v)
        /\ sop' = [name |-> "insert", x |-> v]
    /\ UNCHANGED <<sty, rawb>>
    /\ UNCHANGED enumVars
    /\ UNCHANGED mapVars
    /\ UNCHANGED iterVars

SetRemove ==
    /\ \E v \in Values(sty) :
        /\ raw' = EnumSet_remove(sty, raw, v)
        /\ sop' = [name |-> "remove", x |-> v]
    /\ UNCHANGED <<sty, rawb>>
    /\ UNCHANGED enumVars
    /\ UNCHANGED mapVars
    /\ UNCHANGED iterVars

SetClear ==
    /\ raw' = EnumSet_clear(raw)
    /\ sop' = [name |-> "clear", x |-> MIN(sty)]
    /\ UNCHANGED <<sty, rawb>>
    /\ UNCHANGED enumVars
    /\ UNCHANGED mapVars
    /\ UNCHANGED iterVars

SetNext ==
    \/ SetInsert
    \/ SetRemove
    \/ SetClear

SpecSet == SetInit /\ [][SetNext]_vars

\* C4: for every type T, every set s and all values x # y: after
\* s.insert(x), s.contains(x); after s.remove(x), not s.contains(x); and in
\* both cases s.contains(y) is as before.
C4_InsertRemoveContains ==
    [][ /\ sop'.name = "insert" =>
            /\ EnumSet_contains(sty, raw', sop'.x)
            /\ \A other \in Values(sty) :
                  other # sop'.x =>
                      (EnumSet_contains(sty, raw', other) <=> EnumSet_contains(sty, raw, other))
        /\ sop'.name = "remove" =>
            /\ ~EnumSet_contains(sty, raw', sop'.x)
            /\ \A other \in Values(sty) :
                  other # sop'.x =>
                      (EnumSet_contains(sty, raw', other) <=> EnumSet_contains(sty, raw, other))
      ]_vars

(***************************************************************************)
(* EnumMap<K, V>: inner is the Vec<Option<V>> (empty until first           *)
(* allocated, then K::SIZE slots), size the stored element count.  A map   *)
(* is the record [inner, size]; slot j of the Vec is inner[j + 1].         *)
(***************************************************************************)
MapValues == 1..MaxVal

EnumMap_new == [inner |-> << >>, size |-> 0]

allocate(T, m) ==
    IF Len(m.inner) = 0
    THEN [m EXCEPT !.inner = [j \in 1..SIZE(T) |-> None]]
    ELSE m

EnumMap_len(m) == m.size

EnumMap_is_empty(m) == m.size = 0

EnumMap_get(T, m, k) ==
    IF index(T, k) < Len(m.inner) THEN m.inner[index(T, k) + 1] ELSE None

\* EnumMap::get_mut: the slot's value, which the caller may overwrite with w
EnumMap_get_mut(T, m, k, w) ==
    LET slot == IF index(T, k) < Len(m.inner) THEN m.inner[index(T, k) + 1] ELSE None
    IN  [inner |-> IF IsSome(slot) /\ w # 0
                   THEN [m.inner EXCEPT ![index(T, k) + 1] = Some(w)] ELSE m.inner,
         size |-> m.size,
         ret |-> slot]

EnumMap_contains_key(T, m, k) ==
    IF index(T, k) < Len(m.inner) THEN IsSome(m.inner[index(T, k) + 1]) ELSE FALSE

\* a panic unwinds the program: cur becomes this record and nothing runs after it
Panicked(msg) == [kind |-> "panicked", msg |-> msg]

\* as EnumMap_index, but an absent key gives None instead of the panic
EnumMap_index_or_none(T, m, k) == [ret |-> EnumMap_get(T, m, k), panic |-> FALSE]

\* Index<K>::index and IndexMut<K>::index_mut: get(key).expect("no entry found for key")
EnumMap_index(T, m, k) ==
    [ret |-> EnumMap_get(T, m, k), panic |-> IsNone(EnumMap_get(T, m, k))]

\* a variant of insert that counts every call, placed before the real one
EnumMap_insert_always_counts(T, m, k, v) ==
    LET a == allocate(T, m)
        old_val == a.inner[index(T, k) + 1]
    IN  [inner |-> [a.inner EXCEPT ![index(T, k) + 1] = Some(v)],
         size |-> a.size + 1,
         ret |-> old_val]

\* EnumMap::insert: the map afterwards and the returned old value
EnumMap_insert(T, m, k, v) ==
    LET a == allocate(T, m)
        old_val == a.inner[index(T, k) + 1]
    IN  [inner |-> [a.inner EXCEPT ![index(T, k) + 1] = Some(v)],
         size |-> IF IsNone(old_val) THEN a.size + 1 ELSE a.size,
         ret |-> old_val]

\* a variant of remove that leaves the slot filled, placed before the real one
EnumMap_remove_keeps_slot(T, m, k) ==
    IF index(T, k) >= Len(m.inner)
    THEN [inner |-> m.inner, size |-> m.size, ret |-> None]
    ELSE LET old_val == m.inner[index(T, k) + 1]
         IN  [inner |-> m.inner,
              size |-> IF IsSome(old_val) THEN m.size - 1 ELSE m.size,
              ret |-> old_val]

\* EnumMap::remove: get_mut(idx)? returns None early on an unallocated map
EnumMap_remove(T, m, k) ==
    IF index(T, k) >= Len(m.inner)
    THEN [inner |-> m.inner, size |-> m.size, ret |-> None]
    ELSE LET old_val == m.inner[index(T, k) + 1]
         IN  [inner |-> [m.inner EXCEPT ![index(T, k) + 1] = None],
              size |-> IF IsSome(old_val) THEN m.size - 1 ELSE m.size,
              ret |-> old_val]

\* EnumMap::clear: fill_with keeps the Vec's length
EnumMap_clear(m) ==
    [inner |-> [j \in 1..Len(m.inner) |-> None], size |-> 0]

(***************************************************************************)
(* A closure FnMut(K, &mut V) -> bool is the record [sel, w]: it answers   *)
(* true exactly on the keys in sel, and when w # 0 it overwrites the value *)
(* it is shown with w.                                                     *)
(***************************************************************************)
Closures(T) == [sel : SUBSET Values(T), w : 0..MaxVal]

closure_call(f, k) == k \in f.sel

closure_write(f, slot) == IF f.w = 0 THEN slot ELSE Some(f.w)

\* Zip<Enumeration<K>, slice iterator>::next over slots lo..hi (1-based,
\* inclusive): the key from the enumeration, the slot position from the slice.
Zip_next(T, z) ==
    LET a == Enumeration_next(T, z.en)
    IN  IF IsNone(a.item) THEN [z |-> [z EXCEPT !.en = a.en], item |-> None]
        ELSE IF z.lo > z.hi THEN [z |-> [z EXCEPT !.en = a.en], item |-> None]
        ELSE [z |-> [z EXCEPT !.en = a.en, !.lo = z.lo + 1],
              item |-> Some(<<Unwrap(a.item), z.lo>>)]

RECURSIVE trim_back(_, _, _)
trim_back(T, en, n) ==
    IF n = 0 THEN en ELSE trim_back(T, Enumeration_next_back(T, en).en, n - 1)

\* Zip::next_back: the longer side is first shortened from the back to the
\* length of the shorter, then both step back together.
Zip_next_back(T, z) ==
    LET a_sz == Enumeration_count(T, z.en)
        b_sz == z.hi - z.lo + 1
        en1 == IF a_sz > b_sz THEN trim_back(T, z.en, a_sz - b_sz) ELSE z.en
        hi1 == IF b_sz > a_sz THEN z.hi - (b_sz - a_sz) ELSE z.hi
        a == Enumeration_next_back(T, en1)
    IN  IF IsNone(a.item) THEN [z |-> [z EXCEPT !.en = a.en, !.hi = hi1], item |-> None]
        ELSE [z |-> [z EXCEPT !.en = a.en, !.hi = hi1 - 1],
              item |-> Some(<<Unwrap(a.item), hi1>>)]

\* the loop of EnumMap::retain over K::enumerate(..).zip(&mut self.inner); m
\* carries, beside the map's fields, the keys the closure was called with
RECURSIVE retain_loop(_, _, _, _)
retain_visit(T, m, step, f) ==
    LET k == Unwrap(step.item)[1]
        j == Unwrap(step.item)[2]
        m_v == m.inner[j]
        erase == IF IsSome(m_v) THEN ~closure_call(f, k) ELSE FALSE
        seen == IF IsSome(m_v) THEN closure_write(f, m_v) ELSE m_v
        calls == IF IsSome(m_v) THEN Append(m.calls, k) ELSE m.calls
    IN  IF erase
        THEN retain_loop(T, [inner |-> [m.inner EXCEPT ![j] = None],
                             size |-> m.size - 1, calls |-> calls], step.z, f)
        ELSE retain_loop(T, [inner |-> [m.inner EXCEPT ![j] = seen],
                             size |-> m.size, calls |-> calls], step.z, f)

retain_loop(T, m, z, f) ==
    Only({ IF IsNone(step.item) THEN mm ELSE retain_visit(T, mm, step, f) :
           mm \in {m}, step \in {Zip_next(T, z)} })

ZipAll(T, m) ==
    [en |-> enumerate(T, Unbounded, Unbounded), lo |-> 1, hi |-> Len(m.inner)]

\* as EnumMap_retain, but leaving the count as it was
EnumMap_retain_keeps_size(T, m, f) ==
    [retain_loop(T, [inner |-> m.inner, size |-> m.size, calls |-> << >>], ZipAll(T, m), f)
        EXCEPT !.size = m.size]

\* EnumMap::retain: the map afterwards and the keys the closure was called with
EnumMap_retain(T, m, f) ==
    retain_loop(T, [inner |-> m.inner, size |-> m.size, calls |-> << >>], ZipAll(T, m), f)

\* as matches_mut, but without asking the closure
matches_mut_any(k, val, f) == IsSome(val)

\* matches_mut: an empty slot never reaches the closure
matches_mut(k, val, f) == IF IsNone(val) THEN FALSE ELSE closure_call(f, k)

\* Iter::next over the drained Vec: it = [z, items, remaining]
RECURSIVE Iter_next(_, _)
Iter_visit(T, it, step) ==
    LET k == Unwrap(step.item)[1]
        v == it.items[Unwrap(step.item)[2]]
    IN  IF IsSome(v)
        THEN [it |-> [it EXCEPT !.z = step.z, !.remaining = @ - 1],
              item |-> Some(<<k, Unwrap(v)>>)]
        ELSE Iter_next(T, [it EXCEPT !.z = step.z])

Iter_next(T, it) ==
    Only({ IF IsNone(step.item)
           THEN [it |-> [i0 EXCEPT !.z = step.z], item |-> None]
           ELSE Iter_visit(T, i0, step) :
           i0 \in {it}, step \in {Zip_next(T, it.z)} })

\* Iter::next_back
RECURSIVE Iter_next_back(_, _)
Iter_visit_back(T, it, step) ==
    LET k == Unwrap(step.item)[1]
        v == it.items[Unwrap(step.item)[2]]
    IN  IF IsSome(v)
        THEN [it |-> [it EXCEPT !.z = step.z, !.remaining = @ - 1],
              item |-> Some(<<k, Unwrap(v)>>)]
        ELSE Iter_next_back(T, [it EXCEPT !.z = step.z])

Iter_next_back(T, it) ==
    Only({ IF IsNone(step.item)
           THEN [it |-> [i0 EXCEPT !.z = step.z], item |-> None]
           ELSE Iter_visit_back(T, i0, step) :
           i0 \in {it}, step \in {Zip_next_back(T, it.z)} })

\* ExtractIf::next: xi = [z, f] borrows the map m; the result carries both.
\* xi.calls is the trace of the closure: each key it was called with and
\* what it returned.
RECURSIVE ExtractIf_next(_, _, _)
ExtractIf_visit(T, m, xi, step) ==
    LET k == Unwrap(step.item)[1]
        j == Unwrap(step.item)[2]
        v == m.inner[j]
        seen == IF IsSome(v) THEN closure_write(xi.f, v) ELSE v
        xi2 == [xi EXCEPT !.z = step.z,
                          !.calls = IF IsSome(v) THEN Append(@, <<k, closure_call(xi.f, k)>>)
                                    ELSE @]
    IN  IF matches_mut(k, v, xi.f)
        THEN [m |-> [inner |-> [m.inner EXCEPT ![j] = None], size |-> m.size - 1],
              xi |-> xi2,
              item |-> Some(<<k, Unwrap(seen)>>)]
        ELSE ExtractIf_next(T, [m EXCEPT !.inner[j] = seen], xi2)

ExtractIf_next(T, m, xi) ==
    Only({ IF IsNone(step.item)
           THEN [m |-> mm, xi |-> [x0 EXCEPT !.z = step.z], item |-> None]
           ELSE ExtractIf_visit(T, mm, x0, step) :
           mm \in {m}, x0 \in {xi}, step \in {Zip_next(T, xi.z)} })

\* ExtractIf::next_back
RECURSIVE ExtractIf_next_back(_, _, _)
ExtractIf_visit_back(T, m, xi, step) ==
    LET k == Unwrap(step.item)[1]
        j == Unwrap(step.item)[2]
        v == m.inner[j]
        seen == IF IsSome(v) THEN closure_write(xi.f, v) ELSE v
        xi2 == [xi EXCEPT !.z = step.z,
                          !.calls = IF IsSome(v) THEN Append(@, <<k, closure_call(xi.f, k)>>)
                                    ELSE @]
    IN  IF matches_mut(k, v, xi.f)
        THEN [m |-> [inner |-> [m.inner EXCEPT ![j] = None], size |-> m.size - 1],
              xi |-> xi2,
              item |-> Some(<<k, Unwrap(seen)>>)]
        ELSE ExtractIf_next_back(T, [m EXCEPT !.inner[j] = seen], xi2)

ExtractIf_next_back(T, m, xi) ==
    Only({ IF IsNone(step.item)
           THEN [m |-> mm, xi |-> [x0 EXCEPT !.z = step.z], item |-> None]
           ELSE ExtractIf_visit_back(T, mm, x0, step) :
           mm \in {m}, x0 \in {xi}, step \in {Zip_next_back(T, xi.z)} })

\* OccupiedEntry::insert: replaces the value, the count is untouched
OccupiedEntry_insert(T, m, key, v) ==
    [inner |-> [m.inner EXCEPT ![index(T, key) + 1] = Some(v)],
     size |-> m.size,
     ret |-> m.inner[index(T, key) + 1]]

\* as OccupiedEntry_remove, but emptying every slot
OccupiedEntry_remove_all(T, m, key) ==
    [inner |-> [j \in 1..Len(m.inner) |-> None],
     size |-> 0,
     ret |-> m.inner[index(T, key) + 1]]

\* OccupiedEntry::remove
OccupiedEntry_remove(T, m, key) ==
    [inner |-> [m.inner EXCEPT ![index(T, key) + 1] = None],
     size |-> m.size - 1,
     ret |-> m.inner[index(T, key) + 1]]

\* a variant of VacantEntry::insert that forgets the count, placed before the real one
VacantEntry_insert_uncounted(T, m, key, v) ==
    [inner |-> [m.inner EXCEPT ![index(T, key) + 1] = Some(v)],
     size |-> m.size,
     ret |-> Some(v)]

\* VacantEntry::insert
VacantEntry_insert(T, m, key, v) ==
    [inner |-> [m.inner EXCEPT ![index(T, key) + 1] = Some(v)],
     size |-> m.size + 1,
     ret |-> Some(v)]

\* as Entry_and_modify, but the closure is never called
Entry_and_modify_skipped(T, m, e, g) == [inner |-> m.inner, size |-> m.size, calls |-> 0]

\* Entry::and_modify with the closure |v| *v = g[*v]; calls counts its invocations
Entry_and_modify(T, m, e, g) ==
    IF e.kind = "occupied"
    THEN [inner |-> [m.inner EXCEPT ![index(T, e.key) + 1] = Some(g[Unwrap(@)])],
          size |-> m.size,
          calls |-> 1]
    ELSE [inner |-> m.inner, size |-> m.size, calls |-> 0]

\* Entry::or_insert
Entry_or_insert(T, m, e, v) ==
    IF e.kind = "occupied"
    THEN [inner |-> m.inner, size |-> m.size, ret |-> m.inner[index(T, e.key) + 1]]
    ELSE VacantEntry_insert(T, m, e.key, v)

(***************************************************************************)
(* Specification SpecMap: an EnumMap<K, V> from new().  cur is the live    *)
(* borrow of the map (an entry, a drain iterator or an extract_if          *)
(* iterator); while one is live only its own methods can run.              *)
(***************************************************************************)
MapKeyTypes == {"bool", "Ordering"}

NoBorrow == [kind |-> "none"]

Map == [inner |-> inner, size |-> size]

MapInit ==
    /\ K \in MapKeyTypes
    /\ inner = EnumMap_new.inner
    /\ size = EnumMap_new.size
    /\ cur = NoBorrow
    /\ mop = [name |-> "new", k |-> MIN(K), v |-> 0]
    /\ ret = None
    /\ EnumIdle
    /\ SetIdle
    /\ IterIdle

MapInsert ==
    /\ cur.kind = "none"
    /\ \E k \in Values(K), v \in MapValues :
        LET r == EnumMap_insert(K, Map, k, v)
        IN  /\ inner' = r.inner
            /\ size' = r.size
            /\ ret' = r.ret
            /\ mop' = [name |-> "insert", k |-> k, v |-> v]
    /\ UNCHANGED <<K, cur>>
    /\ UNCHANGED enumVars
    /\ UNCHANGED setVars
    /\ UNCHANGED iterVars

MapRemove ==
    /\ cur.kind = "none"
    /\ \E k \in Values(K) :
        LET r == EnumMap_remove(K, Map, k)
        IN  /\ inner' = r.inner
            /\ size' = r.size
            /\ ret' = r.ret
            /\ mop' = [name |-> "remove", k |-> k, v |-> 0]
    /\ UNCHANGED <<K, cur>>
    /\ UNCHANGED enumVars
    /\ UNCHANGED setVars
    /\ UNCHANGED iterVars

MapClear ==
    /\ cur.kind = "none"
    /\ inner' = EnumMap_clear(Map).inner
    /\ size' = EnumMap_clear(Map).size
    /\ ret' = None
    /\ mop' = [name |-> "clear", k |-> MIN(K), v |-> 0]
    /\ UNCHANGED <<K, cur>>
    /\ UNCHANGED enumVars
    /\ UNCHANGED setVars
    /\ UNCHANGED iterVars

\* map.get(k)
MapGet ==
    /\ cur.kind = "none"
    /\ \E k \in Values(K) :
        /\ ret' = EnumMap_get(K, Map, k)
        /\ mop' = [name |-> "get", k |-> k, v |-> 0]
    /\ UNCHANGED <<K, inner, size, cur>>
    /\ UNCHANGED enumVars
    /\ UNCHANGED setVars
    /\ UNCHANGED iterVars

\* map.get_mut(k), and what the caller stores through the reference it gets
\* (w = 0: nothing)
MapGetMut ==
    /\ cur.kind = "none"
    /\ \E k \in Values(K), w \in 0..MaxVal :
        LET r == EnumMap_get_mut(K, Map, k, w)
        IN  /\ inner' = r.inner
            /\ size' = r.size
            /\ ret' = r.ret
            /\ mop' = [name |-> "get_mut", k |-> k, v |-> w]
    /\ UNCHANGED <<K, cur>>
    /\ UNCHANGED enumVars
    /\ UNCHANGED setVars
    /\ UNCHANGED iterVars

\* map[k]
MapIndex ==
    /\ cur.kind = "none"
    /\ \E k \in Values(K) :
        /\ ret' = EnumMap_index(K, Map, k).ret
        /\ cur' = IF EnumMap_index(K, Map, k).panic
                  THEN Panicked("no entry found for key") ELSE cur
        /\ mop' = [name |-> "index", k |-> k, v |-> 0]
    /\ UNCHANGED <<K, inner, size>>
    /\ UNCHANGED enumVars
    /\ UNCHANGED setVars
    /\ UNCHANGED iterVars

MapRetain ==
    /\ cur.kind = "none"
    /\ \E f \in Closures(K) :
        LET r == EnumMap_retain(K, Map, f)
        IN  /\ inner' = r.inner
            /\ size' = r.size
            /\ mop' = [name |-> "retain", k |-> MIN(K), v |-> 0, f |-> f,
                       calls |-> r.calls, before |-> Map]
    /\ ret' = None
    /\ UNCHANGED <<K, cur>>
    /\ UNCHANGED enumVars
    /\ UNCHANGED setVars
    /\ UNCHANGED iterVars

MapEntry ==
    /\ cur.kind = "none"
    /\ \E key \in Values(K) :
        LET a == allocate(K, Map)
        IN  /\ inner' = a.inner
            /\ size' = a.size
            /\ cur' = [kind |-> IF IsSome(a.inner[index(K, key) + 1])
                                THEN "occupied" ELSE "vacant",
                       key |-> key]
            /\ mop' = [name |-> "entry", k |-> key, v |-> 0]
    /\ ret' = None
    /\ UNCHANGED K
    /\ UNCHANGED enumVars
    /\ UNCHANGED setVars
    /\ UNCHANGED iterVars

EntryOccupiedInsert ==
    /\ cur.kind = "occupied"
    /\ \E v \in MapValues :
        LET r == OccupiedEntry_insert(K, Map, cur.key, v)
        IN  /\ inner' = r.inner
            /\ size' = r.size
            /\ ret' = r.ret
            /\ mop' = [name |-> "occupied_insert", k |-> cur.key, v |-> v]
    /\ UNCHANGED <<K, cur>>
    /\ UNCHANGED enumVars
    /\ UNCHANGED setVars
    /\ UNCHANGED iterVars

EntryOccupiedRemove ==
    /\ cur.kind = "occupied"
    /\ LET r == OccupiedEntry_remove(K, Map, cur.key)
       IN  /\ inner' = r.inner
           /\ size' = r.size
           /\ ret' = r.ret
    /\ mop' = [name |-> "occupied_remove", k |-> cur.key, v |-> 0]
    /\ cur' = NoBorrow
    /\ UNCHANGED K
    /\ UNCHANGED enumVars
    /\ UNCHANGED setVars
    /\ UNCHANGED iterVars

EntryVacantInsert ==
    /\ cur.kind = "vacant"
    /\ \E v \in MapValues :
        LET r == VacantEntry_insert(K, Map, cur.key, v)
        IN  /\ inner' = r.inner
            /\ size' = r.size
            /\ ret' = r.ret
            /\ mop' = [name |-> "vacant_insert", k |-> cur.key, v |-> v]
    /\ cur' = NoBorrow
    /\ UNCHANGED K
    /\ UNCHANGED enumVars
    /\ UNCHANGED setVars
    /\ UNCHANGED iterVars

\* entry.and_modify(f); the entry stays live for the next call of the chain
EntryAndModify ==
    /\ cur.kind \in {"occupied", "vacant"}
    /\ \E g \in [MapValues -> MapValues] :
        LET r == Entry_and_modify(K, Map, cur, g)
        IN  /\ inner' = r.inner
            /\ size' = r.size
            /\ mop' = [name |-> "and_modify", k |-> cur.key, v |-> 0, g |-> g,
                       calls |-> r.calls]
    /\ ret' = None
    /\ UNCHANGED <<K, cur>>
    /\ UNCHANGED enumVars
    /\ UNCHANGED setVars
    /\ UNCHANGED iterVars

\* entry.or_insert(default); calls carries over from an and_modify just before
EntryOrInsert ==
    /\ cur.kind \in {"occupied", "vacant"}
    /\ \E v \in MapValues :
        LET r == Entry_or_insert(K, Map, cur, v)
        IN  /\ inner' = r.inner
            /\ size' = r.size
            /\ ret' = r.ret
            /\ mop' = [name |-> "or_insert", k |-> cur.key, v |-> v,
                       calls |-> IF mop.name = "and_modify" THEN mop.calls ELSE 0]
    /\ cur' = NoBorrow
    /\ UNCHANGED K
    /\ UNCHANGED enumVars
    /\ UNCHANGED setVars
    /\ UNCHANGED iterVars

\* as EnumMap_drain, but leaving the count as it was
EnumMap_drain_keeps_size(T, m) ==
    [m |-> [inner |-> << >>, size |-> m.size],
     it |-> [z |-> ZipAll(T, m), items |-> m.inner, remaining |-> m.size]]

\* EnumMap::drain: the count is zeroed and Vec::drain(..) leaves the Vec
\* empty at once; the iterator owns the drained slots
EnumMap_drain(T, m) ==
    [m |-> [inner |-> << >>, size |-> 0],
     it |-> [z |-> ZipAll(T, m), items |-> m.inner, remaining |-> m.size]]

\* cur records, beside the iterator, the map drain was called on and what
\* next and next_back have yielded so far
MapDrain ==
    /\ cur.kind = "none"
    /\ LET r == EnumMap_drain(K, Map)
       IN  /\ cur' = [kind |-> "drain", z |-> r.it.z, items |-> r.it.items,
                      remaining |-> r.it.remaining, before |-> Map,
                      yielded |-> << >>, yielded_back |-> << >>]
           /\ inner' = r.m.inner
           /\ size' = r.m.size
    /\ ret' = None
    /\ mop' = [name |-> "drain", k |-> MIN(K), v |-> 0]
    /\ UNCHANGED K
    /\ UNCHANGED enumVars
    /\ UNCHANGED setVars
    /\ UNCHANGED iterVars

DrainNext ==
    /\ cur.kind = "drain"
    /\ LET r == Iter_next(K, cur)
       IN  /\ cur' = [r.it EXCEPT !.yielded = IF IsSome(r.item) THEN Append(@, Unwrap(r.item))
                                             ELSE @]
           /\ ret' = r.item
    /\ mop' = [name |-> "drain_next", k |-> MIN(K), v |-> 0]
    /\ UNCHANGED <<K, inner, size>>
    /\ UNCHANGED enumVars
    /\ UNCHANGED setVars
    /\ UNCHANGED iterVars

DrainNextBack ==
    /\ cur.kind = "drain"
    /\ LET r == Iter_next_back(K, cur)
       IN  /\ cur' = [r.it EXCEPT !.yielded_back =
                                     IF IsSome(r.item) THEN Append(@, Unwrap(r.item)) ELSE @]
           /\ ret' = r.item
    /\ mop' = [name |-> "drain_next_back", k |-> MIN(K), v |-> 0]
    /\ UNCHANGED <<K, inner, size>>
    /\ UNCHANGED enumVars
    /\ UNCHANGED setVars
    /\ UNCHANGED iterVars

MapExtractIf ==
    /\ cur.kind = "none"
    /\ \E f \in Closures(K) :
        cur' = [kind |-> "extract_if", z |-> ZipAll(K, Map), f |-> f, calls |-> << >>,
                before |-> Map, yielded |-> << >>]
    /\ ret' = None
    /\ mop' = [name |-> "extract_if", k |-> MIN(K), v |-> 0]
    /\ UNCHANGED <<K, inner, size>>
    /\ UNCHANGED enumVars
    /\ UNCHANGED setVars
    /\ UNCHANGED iterVars

ExtractNext ==
    /\ cur.kind = "extract_if"
    /\ LET r == ExtractIf_next(K, Map, cur)
       IN  /\ inner' = r.m.inner
           /\ size' = r.m.size
           /\ cur' = [r.xi EXCEPT !.yielded = IF IsSome(r.item) THEN Append(@, Unwrap(r.item))
                                             ELSE @]
           /\ ret' = r.item
    /\ mop' = [name |-> "extract_next", k |-> MIN(K), v |-> 0]
    /\ UNCHANGED K
    /\ UNCHANGED enumVars
    /\ UNCHANGED setVars
    /\ UNCHANGED iterVars

ExtractNextBack ==
    /\ cur.kind = "extract_if"
    /\ LET r == ExtractIf_next_back(K, Map, cur)
       IN  /\ inner' = r.m.inner
           /\ size' = r.m.size
           /\ cur' = [r.xi EXCEPT !.yielded = IF IsSome(r.item) THEN Append(@, Unwrap(r.item))
                                             ELSE @]
           /\ ret' = r.item
    /\ mop' = [name |-> "extract_next_back", k |-> MIN(K), v |-> 0]
    /\ UNCHANGED K
    /\ UNCHANGED enumVars
    /\ UNCHANGED setVars
    /\ UNCHANGED iterVars

\* the entry or iterator goes out of scope
DropBorrow ==
    /\ cur.kind \in {"occupied", "vacant", "drain", "extract_if"}
    /\ cur' = NoBorrow
    /\ ret' = None
    /\ mop' = [name |-> "drop", k |-> MIN(K), v |-> 0, dropped |-> cur]
    /\ UNCHANGED <<K, inner, size>>
    /\ UNCHANGED enumVars
    /\ UNCHANGED setVars
    /\ UNCHANGED iterVars

MapNext ==
    \/ MapInsert
    \/ MapRemove
    \/ MapClear
    \/ MapGet
    \/ MapGetMut
    \/ MapIndex
    \/ MapRetain
    \/ MapEntry
    \/ EntryOccupiedInsert
    \/ EntryOccupiedRemove
    \/ EntryVacantInsert
    \/ EntryAndModify
    \/ EntryOrInsert
    \/ MapDrain
    \/ DrainNext
    \/ DrainNextBack
    \/ MapExtractIf
    \/ ExtractNext
    \/ ExtractNextBack
    \/ DropBorrow

SpecMap == MapInit /\ [][MapNext]_vars

\* C1: in every state reached from EnumMap::new() by insert, remove, clear,
\* retain, the entry methods, drain and fully or partly consumed extract_if,
\* len() equals the number of keys k for which get(k) is present, which is
\* the number of occupied slots, and the count is never below zero.
C1_LenCountsOccupied ==
    /\ EnumMap_len(Map) = Cardinality({k \in Values(K) : IsSome(EnumMap_get(K, Map, k))})
    /\ EnumMap_len(Map) = Cardinality({j \in 1..Len(inner) : IsSome(inner[j])})
    /\ size >= 0

\* an extract_if iterator that has handed out one element and is still live,
\* with one element left in the map
C1_Witness ==
    /\ cur.kind = "extract_if"
    /\ mop.name = "extract_next"
    /\ IsSome(ret)
    /\ size = 1
    /\ K = "Ordering"

\* C2: insert(k, v) on an absent k returns None, raises len() by exactly 1
\* and makes get(k) == Some(v), also on a map with no storage yet; on a
\* present k it returns the previous value, leaves len() unchanged and makes
\* get(k) == Some(v).
C2_InsertContract ==
    [][ mop'.name = "insert" =>
          /\ EnumMap_get(K, [inner |-> inner', size |-> size'], mop'.k) = Some(mop'.v)
          /\ IsNone(EnumMap_get(K, Map, mop'.k)) =>
                /\ ret' = None
                /\ size' = size + 1
          /\ IsSome(EnumMap_get(K, Map, mop'.k)) =>
                /\ ret' = EnumMap_get(K, Map, mop'.k)
                /\ size' = size
      ]_vars

\* an insert over a present key, returning the previous, different value
C2_Witness ==
    /\ mop.name = "insert"
    /\ mop.k = "Greater"
    /\ mop.v = 2
    /\ ret = Some(1)
    /\ size = 2

\* C3: remove(k) on a present k returns the stored value, lowers len() by
\* exactly 1 and leaves get(k) None; on an absent k it returns None and
\* leaves len() and every slot unchanged; a remove(k) directly after a
\* remove(k) returns None.
C3_RemoveContract ==
    [][ mop'.name = "remove" =>
          /\ IsNone(EnumMap_get(K, [inner |-> inner', size |-> size'], mop'.k))
          /\ IsSome(EnumMap_get(K, Map, mop'.k)) =>
                /\ ret' = EnumMap_get(K, Map, mop'.k)
                /\ size' = size - 1
          /\ IsNone(EnumMap_get(K, Map, mop'.k)) =>
                /\ ret' = None
                /\ size' = size
                /\ inner' = inner
          /\ (mop.name = "remove" /\ mop.k = mop'.k) => ret' = None
      ]_vars

\* a remove of a present key, returning its value and leaving one element
C3_Witness ==
    /\ mop.name = "remove"
    /\ mop.k = "Equal"
    /\ ret = Some(2)
    /\ size = 1

(***************************************************************************)
(* Specification SpecIter: one Enumeration<ity>, built by enumerate from   *)
(* any pair of bounds, stepped from either end in any order.  fwd and bwd  *)
(* are the values next() and next_back() have handed out so far.           *)
(***************************************************************************)
IterInit ==
    /\ ity \in EnumTypes
    /\ \E start_bound \in Bounds(ity), end_bound \in Bounds(ity) :
        enm0 = enumerate(ity, start_bound, end_bound)
    /\ enm = enm0
    /\ fwd = << >>
    /\ bwd = << >>
    /\ iop = "new"
    /\ got = None
    /\ remaining = 0
    /\ EnumIdle
    /\ SetIdle
    /\ MapIdle

IterNext ==
    /\ iop # "panic"
    /\ LET r == Enumeration_next(ity, enm)
       IN  IF r.panic
           THEN /\ iop' = "panic"
                /\ UNCHANGED <<enm, fwd, got>>
           ELSE /\ iop' = "next"
                /\ enm' = r.en
                /\ got' = r.item
                /\ fwd' = IF IsSome(r.item) THEN Append(fwd, Unwrap(r.item)) ELSE fwd
    /\ UNCHANGED <<ity, enm0, bwd, remaining>>
    /\ UNCHANGED enumVars
    /\ UNCHANGED setVars
    /\ UNCHANGED mapVars

IterNextBack ==
    /\ iop # "panic"
    /\ LET r == Enumeration_next_back(ity, enm)
       IN  IF r.panic
           THEN /\ iop' = "panic"
                /\ UNCHANGED <<enm, bwd, got>>
           ELSE /\ iop' = "next_back"
                /\ enm' = r.en
                /\ got' = r.item
                /\ bwd' = IF IsSome(r.item) THEN Append(bwd, Unwrap(r.item)) ELSE bwd
    /\ UNCHANGED <<ity, enm0, fwd, remaining>>
    /\ UNCHANGED enumVars
    /\ UNCHANGED setVars
    /\ UNCHANGED mapVars

IterStep ==
    \/ IterNext
    \/ IterNextBack

SpecIter == IterInit /\ [][IterStep]_vars

(***************************************************************************)
(* Claims about the Enumeration iterator, checked under SpecIter.          *)
(***************************************************************************)

\* C11: after any interleaving of next() and next_back(), len() and both
\* bounds of size_hint() equal the number of elements still to be yielded
\* (from the front as well as from the back), which is
\* index(end) - index(start) + 1 while not finished and 0 once finished.
C11_LenIsRemaining ==
    /\ Enumeration_len(ity, enm) = Len(Enumeration_collect(ity, enm))
    /\ Enumeration_len(ity, enm) = Len(Enumeration_collect_back(ity, enm))
    /\ Enumeration_size_hint(ity, enm) =
          <<Len(Enumeration_collect(ity, enm)), Some(Len(Enumeration_collect(ity, enm)))>>
    /\ enm.finished => Enumeration_len(ity, enm) = 0
    /\ ~enm.finished =>
          Enumeration_len(ity, enm) = index(ity, enm.end) - index(ity, enm.start) + 1

\* a ManyEnum range stepped from both ends and then exhausted
C11_Witness ==
    /\ ity = "ManyEnum"
    /\ Len(fwd) >= 2
    /\ Len(bwd) >= 2
    /\ enm.finished
    /\ iop = "next_back"

\* C12: with the range's values in index order written full, at every point
\* of every interleaving the values returned by next() are a prefix of full
\* in ascending order, those returned by next_back() a suffix in descending
\* order, and the two do not overlap; once either call returns none every
\* value of full has been yielded exactly once; the last remaining element
\* (start == end) is yielded by whichever call comes first, after which both
\* return none; and no call fails.
C12_EachValueOnce ==
    /\ [](LET n == IF enm0.finished THEN 0
                   ELSE index(ity, enm0.end) - index(ity, enm0.start) + 1
              full == [p \in 1..n |->
                         CHOOSE v \in Values(ity) :
                             index(ity, v) = index(ity, enm0.start) + p - 1]
          IN  /\ Len(fwd) + Len(bwd) <= n
              /\ \A p \in 1..Len(fwd) : fwd[p] = full[p]
              /\ \A p \in 1..Len(bwd) : bwd[p] = full[n - p + 1]
              /\ (iop \in {"next", "next_back"} /\ IsNone(got)) => Len(fwd) + Len(bwd) = n
              /\ iop # "panic")
    /\ [][ /\ (~enm.finished /\ enm.start = enm.end) =>
                 /\ got' = Some(enm.start)
                 /\ enm'.finished
           /\ enm.finished => got' = None
         ]_vars

\* the middle value of Ordering, reached from both sides, handed out by next_back
C12_Witness ==
    /\ ity = "Ordering"
    /\ fwd = <<"Less">>
    /\ bwd = <<"Greater", "Equal">>
    /\ iop = "next_back"
    /\ enm.finished

\* C15: every finished Enumeration, whether built from invalid bounds or
\* emptied by next / next_back, answers next, next_back, len, ==, and the
\* derived Debug / Hash exactly as the canonical empty instance does.
C15_EmptyIndistinguishable ==
    enm.finished =>
        /\ Enumeration_next(ity, enm).item = Enumeration_next(ity, invalid_enum(ity)).item
        /\ Enumeration_next_back(ity, enm).item =
              Enumeration_next_back(ity, invalid_enum(ity)).item
        /\ Enumeration_len(ity, enm) = Enumeration_len(ity, invalid_enum(ity))
        /\ Enumeration_eq(enm, invalid_enum(ity))
        /\ Enumeration_fmt(enm) = Enumeration_fmt(invalid_enum(ity))

(***************************************************************************)
(* Claims about enumerate and reversal, checked under SpecEnum.            *)
(***************************************************************************)

\* C13: for every range x..=y (the full range included), the values
\* collected by next() are the reverse of the values collected by
\* next_back().
C13_RevIsReverse ==
    eop = "rev" =>
        LET forward == Enumeration_collect(ty, enumerate(ty, Included(ex), Included(ey)))
        IN  /\ Len(out) = Len(forward)
            /\ \A p \in 1..Len(out) : out[p] = forward[Len(forward) - p + 1]

\* ManyEnum::enumerate(C..=F) reversed
C13_Witness ==
    /\ eop = "rev"
    /\ ty = "ManyEnum"
    /\ ex = "C"
    /\ ey = "F"
    /\ out = <<"F", "E", "D", "C">>

\* C14: enumerate(range) resolves an unbounded start to MIN, an unbounded
\* end to MAX, an included bound to itself, an excluded start to its
\* successor and an excluded end to its predecessor; when the excluded start
\* is MAX, the excluded end is MIN, or the resolved start lies after the
\* resolved end, the result is the finished range with start = end = MIN,
\* which yields nothing from either end and has length 0; otherwise it is the
\* unfinished range from the resolved start to the resolved end.
C14_EnumerateBounds ==
    eop = "enumerate" =>
        LET no_start == ex.kind = "Excluded" /\ ex.t = MAX(ty)
            no_end == ey.kind = "Excluded" /\ ey.t = MIN(ty)
            first == CASE ex.kind = "Unbounded" -> MIN(ty)
                       [] ex.kind = "Included" -> ex.t
                       [] ex.kind = "Excluded" ->
                            CHOOSE v \in Values(ty) : index(ty, v) = index(ty, ex.t) + 1
            last == CASE ey.kind = "Unbounded" -> MAX(ty)
                      [] ey.kind = "Included" -> ey.t
                      [] ey.kind = "Excluded" ->
                           CHOOSE v \in Values(ty) : index(ty, v) = index(ty, ey.t) - 1
            empty == IF no_start \/ no_end THEN TRUE ELSE index(ty, first) > index(ty, last)
        IN  /\ empty =>
                /\ out = [finished |-> TRUE, start |-> MIN(ty), end |-> MIN(ty)]
                /\ IsNone(Enumeration_next(ty, out).item)
                /\ IsNone(Enumeration_next_back(ty, out).item)
                /\ Enumeration_len(ty, out) = 0
            /\ ~empty => out = [finished |-> FALSE, start |-> first, end |-> last]

\* an excluded start after an included end: the empty range
C14_Witness ==
    /\ eop = "enumerate"
    /\ ty = "Ordering"
    /\ ex = Excluded("Equal")
    /\ ey = Included("Less")
    /\ out.finished

(***************************************************************************)
(* The EnumMap of map.rs: the same fields and the same new() and insert,   *)
(* but remove, get, get_mut and contains_key index the Vec directly.       *)
(***************************************************************************)
\* self.inner[k.index()]: the slot, or the bounds-check panic of Vec's Index
MapRs_slot(T, m, k) ==
    IF index(T, k) < Len(m.inner)
    THEN [panic |-> FALSE, slot |-> m.inner[index(T, k) + 1]]
    ELSE [panic |-> TRUE, slot |-> None]

\* map.rs EnumMap::remove
MapRs_remove(T, m, k) ==
    IF MapRs_slot(T, m, k).panic
    THEN [inner |-> m.inner, size |-> m.size, ret |-> None, panic |-> TRUE]
    ELSE [inner |-> [m.inner EXCEPT ![index(T, k) + 1] = None],
          size |-> IF IsSome(MapRs_slot(T, m, k).slot) THEN m.size - 1 ELSE m.size,
          ret |-> MapRs_slot(T, m, k).slot,
          panic |-> FALSE]

\* map.rs EnumMap::insert allocates like allocate() and is otherwise insert
MapRsInsert ==
    /\ cur.kind = "none"
    /\ \E k \in Values(K), v \in MapValues :
        LET r == EnumMap_insert(K, Map, k, v)
        IN  /\ inner' = r.inner
            /\ size' = r.size
            /\ ret' = r.ret
            /\ mop' = [name |-> "insert", k |-> k, v |-> v]
    /\ UNCHANGED <<K, cur>>
    /\ UNCHANGED enumVars
    /\ UNCHANGED setVars
    /\ UNCHANGED iterVars

MapRsRemove ==
    /\ cur.kind = "none"
    /\ \E k \in Values(K) :
        LET r == MapRs_remove(K, Map, k)
        IN  /\ inner' = r.inner
            /\ size' = r.size
            /\ ret' = r.ret
            /\ cur' = IF r.panic THEN Panicked("index out of bounds") ELSE cur
            /\ mop' = [name |-> "remove", k |-> k, v |-> 0]
    /\ UNCHANGED K
    /\ UNCHANGED enumVars
    /\ UNCHANGED setVars
    /\ UNCHANGED iterVars

\* map.rs EnumMap::get
MapRsGet ==
    /\ cur.kind = "none"
    /\ \E k \in Values(K) :
        /\ ret' = MapRs_slot(K, Map, k).slot
        /\ cur' = IF MapRs_slot(K, Map, k).panic THEN Panicked("index out of bounds") ELSE cur
        /\ mop' = [name |-> "get", k |-> k, v |-> 0]
    /\ UNCHANGED <<K, inner, size>>
    /\ UNCHANGED enumVars
    /\ UNCHANGED setVars
    /\ UNCHANGED iterVars

\* map.rs EnumMap::get_mut
MapRsGetMut ==
    /\ cur.kind = "none"
    /\ \E k \in Values(K) :
        /\ ret' = MapRs_slot(K, Map, k).slot
        /\ cur' = IF MapRs_slot(K, Map, k).panic THEN Panicked("index out of bounds") ELSE cur
        /\ mop' = [name |-> "get_mut", k |-> k, v |-> 0]
    /\ UNCHANGED <<K, inner, size>>
    /\ UNCHANGED enumVars
    /\ UNCHANGED setVars
    /\ UNCHANGED iterVars

\* map.rs EnumMap::contains_key
MapRsContainsKey ==
    /\ cur.kind = "none"
    /\ \E k \in Values(K) :
        /\ ret' = IF IsSome(MapRs_slot(K, Map, k).slot) THEN Some(TRUE) ELSE Some(FALSE)
        /\ cur' = IF MapRs_slot(K, Map, k).panic THEN Panicked("index out of bounds") ELSE cur
        /\ mop' = [name |-> "contains_key", k |-> k, v |-> 0]
    /\ UNCHANGED <<K, inner, size>>
    /\ UNCHANGED enumVars
    /\ UNCHANGED setVars
    /\ UNCHANGED iterVars

MapRsNext ==
    \/ MapRsInsert
    \/ MapRsRemove
    \/ MapRsGet
    \/ MapRsGetMut
    \/ MapRsContainsKey

SpecMapRs == MapInit /\ [][MapRsNext]_vars

\* C16: get, get_mut, contains_key and remove never fail; on a map without
\* storage they report not found for every key; and get(k) is None exactly
\* when slot k is empty.
C16_LookupNeverFails ==
    [][ mop'.name \in {"get", "get_mut", "contains_key", "remove"} =>
          /\ cur'.kind # "panicked"
          /\ Len(inner) = 0 =>
                IF mop'.name = "contains_key" THEN ret' = Some(FALSE) ELSE ret' = None
          /\ mop'.name = "get" =>
                (IsNone(ret') <=> IsNone(EnumMap_get(K, Map, mop'.k)))
      ]_vars

\* C17: map[k] returns the stored value when k is present and panics with
\* "no entry found for key" when k is absent, also on a map without storage;
\* get(k) on an absent key returns None and does not panic; neither changes
\* the map.
C17_IndexPanicsGetDoesNot ==
    [][ LET stored == IF index(K, mop'.k) < Len(inner)
                      THEN inner[index(K, mop'.k) + 1] ELSE None
        IN  /\ mop'.name = "index" =>
                /\ inner' = inner
                /\ size' = size
                /\ IsSome(stored) => (ret' = stored /\ cur' = cur)
                /\ IsNone(stored) => cur' = Panicked("no entry found for key")
            /\ mop'.name = "get" =>
                /\ inner' = inner
                /\ size' = size
                /\ cur' = cur
                /\ ret' = stored
      ]_vars

\* map[k] on a map that has never allocated
C17_Witness ==
    /\ mop.name = "index"
    /\ Len(inner) = 0
    /\ cur = Panicked("no entry found for key")

\* C18: in entry(k).and_modify(f).or_insert(default), on an absent k f is
\* not called, default is stored under k and len() grows by 1; on a present
\* k f is called exactly once on the existing value, default is not stored
\* and len() is unchanged; either way the result is the value now stored
\* under k.
C18_AndModifyOrInsert ==
    [][ /\ mop'.name = "and_modify" =>
            /\ cur' = cur
            /\ size' = size
            /\ cur.kind = "vacant" => (mop'.calls = 0 /\ inner' = inner)
            /\ cur.kind = "occupied" =>
                  /\ mop'.calls = 1
                  /\ inner' = [inner EXCEPT ![index(K, cur.key) + 1] =
                                  Some(mop'.g[Unwrap(inner[index(K, cur.key) + 1])])]
        /\ (mop.name = "and_modify" /\ mop'.name = "or_insert") =>
            /\ ret' = inner'[index(K, cur.key) + 1]
            /\ cur.kind = "vacant" =>
                  /\ mop.calls = 0
                  /\ inner' = [inner EXCEPT ![index(K, cur.key) + 1] = Some(mop'.v)]
                  /\ size' = size + 1
            /\ cur.kind = "occupied" =>
                  /\ mop.calls = 1
                  /\ inner' = inner
                  /\ size' = size
      ]_vars

\* the chain on a present key: f has turned 1 into 2, the default 1 is not stored
C18_Witness ==
    /\ mop.name = "or_insert"
    /\ mop.calls = 1
    /\ mop.v = 1
    /\ ret = Some(2)
    /\ size = 1

(***************************************************************************)
(* Bulk construction: FromIterator<(K, V)> and From<[(K, V); N]>.          *)
(***************************************************************************)
\* the for loop of from_iter over the pairs from position p on
RECURSIVE from_iter_loop(_, _, _, _)
from_iter_loop(T, m, pairs, p) ==
    IF p > Len(pairs) THEN m
    ELSE from_iter_loop(T,
                        [inner |-> [m.inner EXCEPT ![index(T, pairs[p][1]) + 1] =
                                        Some(pairs[p][2])],
                         size |-> m.size + 1],
                        pairs, p + 1)

\* FromIterator::from_iter; From<[(K, V); N]>::from calls it
EnumMap_from_iter(T, pairs) ==
    from_iter_loop(T, [inner |-> [j \in 1..SIZE(T) |-> None], size |-> 0], pairs, 1)

RECURSIVE SeqsUpTo(_, _)
SeqsUpTo(S, n) ==
    IF n = 0 THEN {<< >>}
    ELSE SeqsUpTo(S, n - 1) \cup {Append(q, e) : q \in SeqsUpTo(S, n - 1), e \in S}

(***************************************************************************)
(* Specification SpecMapFrom: an EnumMap built in bulk from a sequence of  *)
(* pairs, then used through insert, remove, clear and get.                 *)
(***************************************************************************)
MapFromInit ==
    /\ K \in MapKeyTypes
    /\ \E pairs \in SeqsUpTo(Values(K) \X MapValues, MaxPairs) :
        /\ inner = EnumMap_from_iter(K, pairs).inner
        /\ size = EnumMap_from_iter(K, pairs).size
        /\ mop = [name |-> "from_iter", k |-> MIN(K), v |-> 0, pairs |-> pairs]
    /\ cur = NoBorrow
    /\ ret = None
    /\ EnumIdle
    /\ SetIdle
    /\ IterIdle

MapFromNext ==
    \/ MapInsert
    \/ MapRemove
    \/ MapClear
    \/ MapGet

SpecMapFrom == MapFromInit /\ [][MapFromNext]_vars

\* C19: the map built from a sequence of pairs has exactly SIZE slots,
\* get(k) is the value of the last pair with key k (None if there is none),
\* and len() is the number of distinct keys in the sequence.
C19_FromIterCountsKeys ==
    mop.name = "from_iter" =>
        /\ Len(inner) = SIZE(K)
        /\ \A k \in Values(K) :
              LET at == {p \in 1..Len(mop.pairs) : mop.pairs[p][1] = k}
              IN  IF at = {} THEN IsNone(EnumMap_get(K, Map, k))
                  ELSE EnumMap_get(K, Map, k) =
                          Some(mop.pairs[CHOOSE p \in at : \A q \in at : q <= p][2])
        /\ EnumMap_len(Map) =
              Cardinality({mop.pairs[p][1] : p \in 1..Len(mop.pairs)})

(***************************************************************************)
(* Serialize / Deserialize for EnumMap, and the derived equality.          *)
(***************************************************************************)
\* collect_map(self): the (key, value) pairs of (&map).into_iter(), in order
RECURSIVE Iter_collect(_, _)
Iter_collect(T, it) ==
    Only({ IF IsNone(r.item) THEN << >>
           ELSE <<Unwrap(r.item)>> \o Iter_collect(T, r.it) :
           r \in {Iter_next(T, it)} })

EnumMap_serialize(T, m) ==
    Iter_collect(T, [z |-> ZipAll(T, m), items |-> m.inner, remaining |-> m.size])

\* visit_map: EnumMap::new(), then insert for every entry from position p on
RECURSIVE visit_map(_, _, _, _)
visit_map(T, values, entries, p) ==
    IF p > Len(entries) THEN values
    ELSE Only({ visit_map(T, [inner |-> r.inner, size |-> r.size], entries, p + 1) :
                r \in {EnumMap_insert(T, values, entries[p][1], entries[p][2])} })

EnumMap_deserialize(T, entries) == visit_map(T, EnumMap_new, entries, 1)

\* #[derive(PartialEq)] for EnumMap: inner and size, field by field
EnumMap_eq(a, b) == a.inner = b.inner /\ a.size = b.size

\* C20: every map reached by the public operations, with no entry or
\* iterator live, compares equal to the map decoded from its encoding.
C20_MapRoundTrip ==
    cur.kind = "none" =>
        EnumMap_eq(EnumMap_deserialize(K, EnumMap_serialize(K, Map)), Map)

(***************************************************************************)
(* The serde round trip of a set, over the sets of SpecSet.                *)
(***************************************************************************)
\* C21: for any set s, decoding its encoding (inserting each value of s's
\* ascending iteration into a new set) gives a set equal to s, and the
\* decoded set is the same when the sequence is reversed or repeated.
C21_SetRoundTrip ==
    LET items == EnumSet_serialize(sty, raw).items
        backwards == [i \in 1..Len(items) |-> items[Len(items) + 1 - i]]
    IN  /\ EnumSet_eq(EnumSet_deserialize(sty, items), raw)
        /\ EnumSet_deserialize(sty, backwards \o items) = EnumSet_deserialize(sty, items)

(***************************************************************************)
(* Specification SpecSetOps: two sets a (raw) and b (rawb) of one type,    *)
(* from new(), under every operation of EnumSet except from_raw.  A call   *)
(* that returns a set leaves its result in sop.r; SetBind is the caller    *)
(* keeping that result (EnumSet is Copy): it becomes a, and the old a      *)
(* becomes b.  The types are those of at most MaxSetSize values.           *)
(***************************************************************************)
\* Sets are combined for the types of at most MaxSetSize values.
MaxSetSize == 3
\* Sets are collected from sequences of up to MaxElems values.
MaxElems == 2

SetOpTypes == {T \in EnumTypes : SIZE(T) <= MaxSetSize}

SetOpsInit ==
    /\ sty \in SetOpTypes
    /\ raw = EnumSet_new
    /\ rawb = EnumSet_new
    /\ sop = [name |-> "new", x |-> MIN(sty)]
    /\ EnumIdle
    /\ MapIdle
    /\ IterIdle

SetRetain ==
    /\ \E f \in SUBSET Values(sty) :
        LET r == EnumSet_retain(sty, raw, f)
        IN  /\ raw' = r.raw
            /\ sop' = [name |-> "retain", x |-> MIN(sty), f |-> f, calls |-> r.calls,
                       before |-> raw]
    /\ UNCHANGED <<sty, rawb>>
    /\ UNCHANGED enumVars
    /\ UNCHANGED mapVars
    /\ UNCHANGED iterVars

\* a.inverse(), and !a
SetInverse ==
    /\ sop' = [name |-> "inverse", x |-> MIN(sty), r |-> EnumSet_inverse(sty, raw)]
    /\ UNCHANGED <<sty, raw, rawb>>
    /\ UNCHANGED enumVars
    /\ UNCHANGED mapVars
    /\ UNCHANGED iterVars

\* a.union(&b), a.intersection(&b), a.difference(&b), a.symmetric_difference(&b)
SetCombine ==
    /\ \E m \in {"union", "intersection", "difference", "symmetric_difference"} :
        sop' = [name |-> m, x |-> MIN(sty),
                r |-> CASE m = "union" -> EnumSet_union(raw, rawb)
                        [] m = "intersection" -> EnumSet_intersection(raw, rawb)
                        [] m = "difference" -> EnumSet_difference(raw, rawb)
                        [] m = "symmetric_difference" -> EnumSet_symmetric_difference(raw, rawb)]
    /\ UNCHANGED <<sty, raw, rawb>>
    /\ UNCHANGED enumVars
    /\ UNCHANGED mapVars
    /\ UNCHANGED iterVars

\* a & b, a | b, a ^ b and a & x, a | x, a ^ x
SetBitop ==
    /\ \E f \in {"bitand", "bitor", "bitxor"} :
        \/ sop' = [name |-> f, x |-> MIN(sty), r |-> bitop(f, raw, rawb)]
        \/ \E v \in Values(sty) :
              sop' = [name |-> f, x |-> v, r |-> bitop(f, raw, bit(sty, v))]
    /\ UNCHANGED <<sty, raw, rawb>>
    /\ UNCHANGED enumVars
    /\ UNCHANGED mapVars
    /\ UNCHANGED iterVars

\* a &= b, a |= b, a ^= b and a &= x, a |= x, a ^= x
SetBitAssign ==
    /\ \E f \in {"bitand", "bitor", "bitxor"} :
        \/ /\ raw' = bitop(f, raw, rawb)
           /\ sop' = [name |-> f \o "_assign", x |-> MIN(sty)]
        \/ \E v \in Values(sty) :
              /\ raw' = bitop(f, raw, bit(sty, v))
              /\ sop' = [name |-> f \o "_assign", x |-> v]
    /\ UNCHANGED <<sty, rawb>>
    /\ UNCHANGED enumVars
    /\ UNCHANGED mapVars
    /\ UNCHANGED iterVars

\* vals.into_iter().collect(), EnumSet::from(vals), enums![vals]
SetCollect ==
    /\ \E vals \in SeqsUpTo(Values(sty), MaxElems) :
        sop' = [name |-> "from_iter", x |-> MIN(sty), r |-> EnumSet_from_iter(sty, vals)]
    /\ UNCHANGED <<sty, raw, rawb>>
    /\ UNCHANGED enumVars
    /\ UNCHANGED mapVars
    /\ UNCHANGED iterVars

SetBind ==
    /\ "r" \in DOMAIN sop
    /\ raw' = sop.r
    /\ rawb' = raw
    /\ sop' = [name |-> "bind", x |-> MIN(sty)]
    /\ UNCHANGED sty
    /\ UNCHANGED enumVars
    /\ UNCHANGED mapVars
    /\ UNCHANGED iterVars

SetOpsNext ==
    \/ SetInsert
    \/ SetRemove
    \/ SetClear
    \/ SetRetain
    \/ SetInverse
    \/ SetCombine
    \/ SetBitop
    \/ SetBitAssign
    \/ SetCollect
    \/ SetBind

SpecSetOps == SetOpsInit /\ [][SetOpsNext]_vars

\* C22: for every set s and value x, s.inverse() contains x exactly when s
\* does not; so s and s.inverse() are disjoint, together they contain every
\* value, and the inverse of the inverse is s when s has no bit at or above
\* position SIZE.
C22_InverseIsComplement ==
    sop.name = "inverse" =>
        /\ \A v \in Values(sty) :
              EnumSet_contains(sty, sop.r, v) <=> ~EnumSet_contains(sty, raw, v)
        /\ BitAnd(raw, sop.r) = 0
        /\ \A v \in Values(sty) : EnumSet_contains(sty, EnumSet_union(raw, sop.r), v)
        /\ raw < Pow2(SIZE(sty)) => EnumSet_eq(EnumSet_inverse(sty, sop.r), raw)

\* C23: from the empty set, under every operation but from_raw, no set (a, b
\* or a returned one) has a bit at position SIZE or higher.
C23_NoBitBeyondSize ==
    /\ raw < Pow2(SIZE(sty))
    /\ rawb < Pow2(SIZE(sty))
    /\ "r" \in DOMAIN sop => sop.r < Pow2(SIZE(sty))

C23_Witness ==
    /\ sop.name = "inverse"
    /\ raw # 0
    /\ sop.r # 0
    /\ sop.r + raw = Pow2(SIZE(sty)) - 1

\* C24: union(a, b) contains x iff a or b does, intersection(a, b) iff both
\* do, difference(a, b) iff a does and b does not, symmetric_difference(a, b)
\* iff exactly one does; a and b are as they were.
C24_SetAlgebra ==
    [][ sop'.name \in {"union", "intersection", "difference", "symmetric_difference"} =>
          /\ raw' = raw
          /\ rawb' = rawb
          /\ \A v \in Values(sty) :
                LET ina == EnumSet_contains(sty, raw, v)
                    inb == EnumSet_contains(sty, rawb, v)
                    inr == EnumSet_contains(sty, sop'.r, v)
                IN  CASE sop'.name = "union" -> inr <=> (ina \/ inb)
                      [] sop'.name = "intersection" -> inr <=> (ina /\ inb)
                      [] sop'.name = "difference" -> inr <=> (ina /\ ~inb)
                      [] sop'.name = "symmetric_difference" -> inr <=> (ina # inb)
      ]_vars

(***************************************************************************)
(* Specification SpecSetMut: one set, from new(), under insert, remove,    *)
(* clear and retain.                                                       *)
(***************************************************************************)
SetMutNext ==
    \/ SetInsert
    \/ SetRemove
    \/ SetClear
    \/ SetRetain

SpecSetMut == SetOpsInit /\ [][SetMutNext]_vars

\* the values of T in ascending index order
AllValues(T) == Enumeration_collect(T, enumerate(T, Unbounded, Unbounded))

\* C25: after any sequence of insert, remove, clear and retain from the empty
\* set, len() is the number of values x with contains(x), and is_empty()
\* holds exactly when that number is 0.
C25_LenCountsContained ==
    LET contained == {v \in Values(sty) : EnumSet_contains(sty, raw, v)}
    IN  /\ EnumSet_len(raw) = Cardinality(contained)
        /\ EnumSet_is_empty(raw) <=> Cardinality(contained) = 0

\* C26: retain(f) calls f once for each value the set contained at the start,
\* in ascending index order, and for no other value; afterwards the set
\* contains exactly the previously contained values that f accepted.
C26_RetainContract ==
    sop.name = "retain" =>
        /\ sop.calls = SelectSeq(AllValues(sty), LAMBDA v : EnumSet_contains(sty, sop.before, v))
        /\ \A v \in Values(sty) :
              EnumSet_contains(sty, raw, v) <=>
                  (EnumSet_contains(sty, sop.before, v) /\ v \in sop.f)

(***************************************************************************)
(* Specification SpecSetIter: the iterator of a set (into_iter), stepped   *)
(* from either end.  The set is collected from up to MaxElems values, the  *)
(* inverse of such a set, or made by from_raw.  The iterator's fields are  *)
(* raw (its copy of the set), enm and remaining; fwd and bwd are what      *)
(* next and next_back have yielded.  `remaining -= 1` at 0 panics where    *)
(* overflow is checked and wraps where it is not: both outcomes are steps. *)
(***************************************************************************)
SetIterWords(T) ==
    {EnumSet_from_iter(T, vals) : vals \in SeqsUpTo(Values(T), MaxElems)}
        \cup {EnumSet_inverse(T, EnumSet_from_iter(T, vals)) :
                 vals \in SeqsUpTo(Values(T), MaxElems)}
        \cup {EnumSet_from_raw(w) : w \in {BitNot(0, RepBits(T)), Pow2(SIZE(T))}}

SetIterInit ==
    /\ sty \in EnumTypes
    /\ raw \in SetIterWords(sty)
    /\ rawb = EnumSet_new
    /\ sop = [name |-> "into_iter", x |-> MIN(sty)]
    /\ ity = sty
    /\ enm0 = SetIter_new(sty, raw).iter
    /\ enm = enm0
    /\ remaining = SetIter_new(sty, raw).remaining
    /\ fwd = << >>
    /\ bwd = << >>
    /\ iop = "new"
    /\ got = None
    /\ EnumIdle
    /\ MapIdle

SetIterNext ==
    /\ iop # "panic"
    /\ LET r == SetIter_next(sty, [set |-> raw, iter |-> enm, remaining |-> remaining])
       IN  \/ /\ r.panic \/ r.underflow
              /\ iop' = "panic"
              /\ UNCHANGED <<enm, remaining, fwd, got>>
           \/ /\ ~r.panic
              /\ iop' = "next"
              /\ enm' = r.it.iter
              /\ remaining' = r.it.remaining
              /\ got' = r.item
              /\ fwd' = IF IsSome(r.item) THEN Append(fwd, Unwrap(r.item)) ELSE fwd
    /\ UNCHANGED <<ity, enm0, bwd>>
    /\ UNCHANGED enumVars
    /\ UNCHANGED setVars
    /\ UNCHANGED mapVars

SetIterNextBack ==
    /\ iop # "panic"
    /\ LET r == SetIter_next_back(sty, [set |-> raw, iter |-> enm, remaining |-> remaining])
       IN  \/ /\ r.panic \/ r.underflow
              /\ iop' = "panic"
              /\ UNCHANGED <<enm, remaining, bwd, got>>
           \/ /\ ~r.panic
              /\ iop' = "next_back"
              /\ enm' = r.it.iter
              /\ remaining' = r.it.remaining
              /\ got' = r.item
              /\ bwd' = IF IsSome(r.item) THEN Append(bwd, Unwrap(r.item)) ELSE bwd
    /\ UNCHANGED <<ity, enm0, fwd>>
    /\ UNCHANGED enumVars
    /\ UNCHANGED setVars
    /\ UNCHANGED mapVars

SetIterStep ==
    \/ SetIterNext
    \/ SetIterNextBack

SpecSetIter == SetIterInit /\ [][SetIterStep]_vars

\* the values x with contains(x), in ascending index order
Contained(T, word) == SelectSeq(AllValues(T), LAMBDA v : EnumSet_contains(T, word, v))

\* what next and next_back have yielded so far, in ascending position
Yielded == fwd \o [i \in 1..Len(bwd) |-> bwd[Len(bwd) + 1 - i]]

\* C27: iterating a set yields exactly the values x with contains(x), each
\* once, ascending from the front and descending from the back; a set whose
\* raw word has every bit set iterates to the same sequence as enumerate(..).
C27_IterYieldsContained ==
    LET all == Contained(sty, raw)
    IN  /\ iop # "panic" =>
              /\ Len(fwd) + Len(bwd) <= Len(all)
              /\ fwd = SubSeq(all, 1, Len(fwd))
              /\ \A i \in 1..Len(bwd) : bwd[i] = all[Len(all) + 1 - i]
              /\ (iop \in {"next", "next_back"} /\ IsNone(got)) => Yielded = all
        /\ (iop = "new" /\ raw = BitNot(0, RepBits(sty))) =>
              SetIter_collect(sty, SetIter_new(sty, raw)).items = AllValues(sty)

\* C28: for every set and after any interleaving of next and next_back, the
\* remaining count (len, count, the upper bound of size_hint) is not smaller
\* than, and for this exact-size iterator equal to, the number of elements
\* still to be yielded, and it is 0 once the iterator is drained.
C28_RemainingIsExact ==
    LET it == [set |-> raw, iter |-> enm, remaining |-> remaining]
        left == Len(SetIter_collect(sty, it).items)
    IN  iop # "panic" =>
            /\ usize_ge(SetIter_len(it), left)
            /\ SetIter_len(it) = left
            /\ SetIter_count(it) = left
            /\ SetIter_size_hint(it) = <<left, Some(left)>>
            /\ left = 0 => SetIter_len(it) = 0

(***************************************************************************)
(* retain and extract_if on the maps of SpecMap.                           *)
(***************************************************************************)
\* C29: EnumMap::retain(f) calls f once for each occupied slot, in ascending
\* key order, and for no empty slot; afterwards the map holds exactly the
\* pairs f accepted, with what f wrote to their values, and len() is smaller
\* by the number of pairs f rejected.
C29_MapRetainContract ==
    mop.name = "retain" =>
        LET occupied == {k \in Values(K) : EnumMap_contains_key(K, mop.before, k)}
            rejected == {k \in occupied : ~closure_call(mop.f, k)}
        IN  /\ mop.calls = SelectSeq(AllValues(K), LAMBDA k : k \in occupied)
            /\ \A k \in Values(K) :
                  EnumMap_get(K, Map, k) =
                      IF k \in occupied \ rejected
                      THEN closure_write(mop.f, EnumMap_get(K, mop.before, k))
                      ELSE None
            /\ EnumMap_len(Map) = EnumMap_len(mop.before) - Cardinality(rejected)

\* a retain that kept one pair, writing to it, and rejected another
C29_Witness ==
    /\ mop.name = "retain"
    /\ Len(mop.calls) >= 2
    /\ mop.f.w # 0
    /\ size >= 1
    /\ size < mop.before.size

\* C30: when an extract_if iterator is dropped, after any number of next and
\* next_back calls, what it yielded is exactly the visited pairs its closure
\* accepted, and they are gone from the map; the visited pairs it rejected
\* and the pairs not visited are still in the map; len() is the number of
\* pairs in the map.
C30_ExtractIfDropped ==
    (mop.name = "drop" /\ mop.dropped.kind = "extract_if") =>
        LET xi == mop.dropped
            accepted == SelectSeq(xi.calls, LAMBDA c : c[2])
            visited == {xi.calls[i][1] : i \in 1..Len(xi.calls)}
            written(k) == closure_write(xi.f, EnumMap_get(K, xi.before, k))
        IN  /\ xi.yielded = [i \in 1..Len(accepted) |->
                                <<accepted[i][1], Unwrap(written(accepted[i][1]))>>]
            /\ \A i \in 1..Len(xi.calls) :
                  EnumMap_get(K, Map, xi.calls[i][1]) =
                      IF xi.calls[i][2] THEN None ELSE written(xi.calls[i][1])
            /\ \A k \in Values(K) \ visited :
                  EnumMap_get(K, Map, k) = EnumMap_get(K, xi.before, k)
            /\ EnumMap_len(Map) =
                  Cardinality({k \in Values(K) : EnumMap_contains_key(K, Map, k)})

\* an iterator dropped after yielding one pair and rejecting another, with a
\* third pair not visited
C30_Witness ==
    /\ mop.name = "drop"
    /\ mop.dropped.kind = "extract_if"
    /\ K = "Ordering"
    /\ Len(mop.dropped.yielded) = 1
    /\ Len(mop.dropped.calls) = 2
    /\ mop.dropped.before.size = 3
    /\ size = 2

(***************************************************************************)
(* drain on the maps of SpecMap.                                           *)
(***************************************************************************)
Reverse(s) == [i \in 1..Len(s) |-> s[Len(s) + 1 - i]]

\* the occupied (key, value) pairs of m, by ascending key index
Pairs(T, m) ==
    LET keys == SelectSeq(AllValues(T), LAMBDA k : EnumMap_contains_key(T, m, k))
    IN  [i \in 1..Len(keys) |-> <<keys[i], Unwrap(EnumMap_get(T, m, keys[i]))>>]

\* C31: once the iterator of drain() is dropped, after any number of next
\* and next_back calls, the map is empty (len() is 0 and get(k) is None for
\* every key), and an insert(k, v) that follows gives len() = 1 and
\* get(k) = Some(v); a drain iterator that has returned None has yielded
\* exactly the pairs the map held, by ascending key index from next (and
\* from the other end by next_back).
C31_DrainLeavesEmpty ==
    /\ [](/\ (mop.name = "drop" /\ mop.dropped.kind = "drain") =>
                /\ EnumMap_len(Map) = 0
                /\ EnumMap_is_empty(Map)
                /\ \A k \in Values(K) : EnumMap_get(K, Map, k) = None
          /\ (cur.kind = "drain" /\ mop.name \in {"drain_next", "drain_next_back"}
                /\ IsNone(ret)) =>
                cur.yielded \o Reverse(cur.yielded_back) = Pairs(K, cur.before))
    /\ [][(mop.name = "drop" /\ mop.dropped.kind = "drain" /\ mop'.name = "insert") =>
             /\ EnumMap_len([inner |-> inner', size |-> size']) = 1
             /\ EnumMap_get(K, [inner |-> inner', size |-> size'], mop'.k) = Some(mop'.v)]_vars

\* a drain of a full three-key map dropped after one pair was taken from
\* each end
C31_Witness ==
    /\ mop.name = "drop"
    /\ mop.dropped.kind = "drain"
    /\ mop.dropped.before.size = 3
    /\ Len(mop.dropped.yielded) = 1
    /\ Len(mop.dropped.yielded_back) = 1
    /\ size = 0

(***************************************************************************)
(* The borrowing and consuming iterators of EnumMap.                       *)
(***************************************************************************)
\* as keys_loop, but yielding the key of every slot
RECURSIVE keys_loop_all(_, _, _)
keys_loop_all(T, m, z) ==
    Only({ IF IsNone(step.item) THEN << >>
           ELSE <<Unwrap(step.item)[1]>> \o keys_loop_all(T, m, step.z) :
           step \in {Zip_next(T, z)} })

\* K::enumerate(..).zip(&self.inner).filter_map(..), run to the end
RECURSIVE keys_loop(_, _, _)
keys_loop(T, m, z) ==
    Only({ IF IsNone(step.item) THEN << >>
           ELSE (IF IsSome(m.inner[Unwrap(step.item)[2]])
                 THEN <<Unwrap(step.item)[1]>> ELSE << >>) \o keys_loop(T, m, step.z) :
           step \in {Zip_next(T, z)} })

EnumMap_keys(T, m) == keys_loop(T, m, ZipAll(T, m))

\* values, values_mut and into_values: the Vec alone, empty slots dropped
EnumMap_values(m) ==
    LET full == SelectSeq(m.inner, LAMBDA slot : IsSome(slot))
    IN  [i \in 1..Len(full) |-> Unwrap(full[i])]

\* the three into_iter impls (and iter, iter_mut): Iter::new over the slots
EnumMap_into_iter(T, m) == [z |-> ZipAll(T, m), items |-> m.inner, remaining |-> m.size]

\* next_back until None
RECURSIVE Iter_collect_back(_, _)
Iter_collect_back(T, it) ==
    Only({ IF IsNone(r.item) THEN << >>
           ELSE <<Unwrap(r.item)>> \o Iter_collect_back(T, r.it) :
           r \in {Iter_next_back(T, it)} })

\* C32: keys, values (values_mut, into_values) and iter (iter_mut,
\* into_iter) of a map yield exactly its occupied entries, once each, by
\* ascending key index, and iter yields them in descending order from
\* next_back; a map with no storage allocated yields nothing.
C32_IteratorsYieldOccupied ==
    cur.kind = "none" =>
        LET ps == Pairs(K, Map)
        IN  /\ EnumMap_keys(K, Map) = [i \in 1..Len(ps) |-> ps[i][1]]
            /\ EnumMap_values(Map) = [i \in 1..Len(ps) |-> ps[i][2]]
            /\ Iter_collect(K, EnumMap_into_iter(K, Map)) = ps
            /\ Iter_collect_back(K, EnumMap_into_iter(K, Map)) = Reverse(ps)
            /\ Len(inner) = 0 =>
                  /\ EnumMap_keys(K, Map) = << >>
                  /\ EnumMap_values(Map) = << >>
                  /\ Iter_collect(K, EnumMap_into_iter(K, Map)) = << >>
                  /\ Iter_collect_back(K, EnumMap_into_iter(K, Map)) = << >>

\* a three-key map with an empty slot between two occupied ones
C32_Witness ==
    /\ cur.kind = "none"
    /\ K = "Ordering"
    /\ Len(inner) = 3
    /\ IsSome(inner[1])
    /\ IsNone(inner[2])
    /\ IsSome(inner[3])
    /\ EnumMap_keys(K, Map) = <<"Less", "Greater">>

(***************************************************************************)
(* The representation #[derive(Enum)] chooses, over enums of every length. *)
(***************************************************************************)
MaxVariants == 130

\* derive_enum up to `type Rep`: the message of the panic, or the width in
\* bits of the chosen representation
derive_enum(n) ==
    IF n = 0 THEN [panic |-> "type must not be empty", rep |-> 0]
    ELSE IF rep_for_size(n + 1) = 0 THEN [panic |-> "too many variants", rep |-> 0]
    ELSE [panic |-> "", rep |-> rep_for_size(n + 1)]

\* an enum of ei variants, none with a manual discriminant
DeriveInit ==
    /\ ty = "derive"
    /\ ei \in 0..MaxVariants
    /\ ex = "false" /\ ey = "false"
    /\ eop = "input"
    /\ out = None
    /\ SetIdle
    /\ MapIdle
    /\ IterIdle

DeriveEnum ==
    /\ eop = "input"
    /\ eop' = "derive_enum"
    /\ out' = Some(derive_enum(ei))
    /\ UNCHANGED <<ty, ex, ey, ei>>
    /\ UNCHANGED setVars
    /\ UNCHANGED mapVars
    /\ UNCHANGED iterVars

DeriveNext == DeriveEnum

SpecDerive == DeriveInit /\ [][DeriveNext]_vars

\* C33: for an enum of N variants, 1 <= N <= 128, the macro chooses for Rep
\* the smallest of u8, u16, u32, u64, u128 that has at least N bits.
C33_SmallestRep ==
    (eop = "derive_enum" /\ ei >= 1 /\ ei <= 128) =>
        /\ Unwrap(out).panic = ""
        /\ Unwrap(out).rep \in {8, 16, 32, 64, 128}
        /\ Unwrap(out).rep >= ei
        /\ \A w \in {8, 16, 32, 64, 128} : w >= ei => Unwrap(out).rep <= w

(***************************************************************************)
(* fold, rfold, fusing and the expect() calls, checked under SpecIter.     *)
(***************************************************************************)
\* C34: in every state of an Enumeration (new, partly consumed from either
\* end, or finished) fold visits exactly the elements repeated next() would
\* yield, in the same order and once each, and rfold exactly the elements
\* repeated next_back() would yield, in the same order and once each.
C34_FoldIsRepeatedNext ==
    /\ Enumeration_fold(ity, enm) = Enumeration_collect(ity, enm)
    /\ Enumeration_rfold(ity, enm) = Enumeration_collect_back(ity, enm)

\* a ManyEnum range stepped from both ends with several values left
C34_Witness ==
    /\ ity = "ManyEnum"
    /\ Len(fwd) >= 1
    /\ Len(bwd) >= 1
    /\ ~enm.finished
    /\ Len(Enumeration_fold(ity, enm)) >= 2
    /\ Len(Enumeration_rfold(ity, enm)) >= 2

\* C35: once an Enumeration is finished (built empty, or after the element
\* with start = end was yielded), every later next() and next_back(), in
\* any order, returns None and leaves start, end and finished unchanged.
C35_FinishedIsAbsorbing ==
    [][enm.finished => (got' = None /\ enm' = enm /\ iop' \in {"next", "next_back"})]_vars

\* a range emptied from both ends, then asked again from the front
C35_Witness ==
    /\ Len(fwd) >= 1
    /\ Len(bwd) >= 1
    /\ enm.finished
    /\ iop = "next"
    /\ got = None

\* C36: in every state reached from enumerate(range) by next() and
\* next_back() in any order, a range that is not finished has
\* index(start) <= index(end); so whenever start differs from end, start has
\* a successor and end a predecessor, and neither expect() fails.
C36_StartNotAfterEnd ==
    /\ iop # "panic"
    /\ ~enm.finished =>
          /\ index(ity, enm.start) <= index(ity, enm.end)
          /\ enm.start # enm.end =>
                /\ IsSome(succ(ity, enm.start))
                /\ IsSome(pred(ity, enm.end))
                /\ ~Enumeration_next(ity, enm).panic
                /\ ~Enumeration_next_back(ity, enm).panic

\* an Option<Ordering> range narrowed from both ends with values left
C36_Witness ==
    /\ ity = "Option<Ordering>"
    /\ Len(fwd) >= 1
    /\ Len(bwd) >= 1
    /\ ~enm.finished
    /\ enm.start # enm.end

(***************************************************************************)
(* Equality, the frame of the single-key operations and the length of      *)
(* extract_if, on the maps of SpecMap.                                     *)
(***************************************************************************)
SameContents(T, a, b) == \A k \in Values(T) : EnumMap_get(T, a, k) = EnumMap_get(T, b, k)

\* C37: two maps of one type that hold the same key-value associations
\* compare equal, whatever operations produced them: a reachable map equals
\* EnumMap::new() when it holds nothing, and equals the map collected from
\* its own pairs.
C37_EqualityByContents ==
    cur.kind = "none" =>
        \A other \in {EnumMap_new, EnumMap_from_iter(K, Pairs(K, Map))} :
            SameContents(K, Map, other) => EnumMap_eq(Map, other)

\* C38: insert(k, v), remove(k), get_mut(k), entry(k) and every operation
\* of the entry it returns leave get(j) unchanged for every key j other
\* than k, and change len() by at most 1.
C38_SingleKeyFrame ==
    [][mop'.name \in {"insert", "remove", "get_mut", "entry", "occupied_insert",
                      "occupied_remove", "vacant_insert", "and_modify", "or_insert"} =>
          /\ \A j \in Values(K) \ {mop'.k} :
                EnumMap_get(K, [inner |-> inner', size |-> size'], j) = EnumMap_get(K, Map, j)
          /\ size' - size \in {-1, 0, 1}]_vars

\* an occupied entry removed from a full three-key map
C38_Witness ==
    /\ mop.name = "occupied_remove"
    /\ K = "Ordering"
    /\ mop.k = "Equal"
    /\ size = 2
    /\ IsSome(inner[1])
    /\ IsSome(inner[3])

\* ExactSizeIterator::len and size_hint of ExtractIf: the map's count
ExtractIf_len(m, xi) == m.size

ExtractIf_size_hint(m, xi) == <<0, Some(m.size)>>

\* the pairs ExtractIf::next yields from here until it returns None
RECURSIVE ExtractIf_collect(_, _, _)
ExtractIf_collect(T, m, xi) ==
    Only({ IF IsNone(r.item) THEN << >>
           ELSE <<Unwrap(r.item)>> \o ExtractIf_collect(T, r.m, r.xi) :
           r \in {ExtractIf_next(T, m, xi)} })

\* C39: in every state of an extract_if iterator, after any next and
\* next_back calls, len() is the number of pairs it will still yield, and
\* the upper bound of size_hint() is not smaller than that number.
C39_ExtractIfLenExact ==
    cur.kind = "extract_if" =>
        /\ ExtractIf_len(Map, cur) = Len(ExtractIf_collect(K, Map, cur))
        /\ Unwrap(ExtractIf_size_hint(Map, cur)[2]) >= Len(ExtractIf_collect(K, Map, cur))

====
